---- MODULE Spec2Model ----
(***************************************************************************)
(* The gate funnel of QuantScanner, in its two orchestrations:             *)
(*   SwingFilter.run_pipeline   (src/swing_filter.py)                      *)
(*   Orchestrator.run_scan      (src/orchestrator.py)                      *)
(* Both are run on the same batch.  A gate is a function of the batch, so  *)
(* the verdict a gate gives a ticker is drawn once, the first time either  *)
(* orchestration asks that gate about that ticker, and kept in `oracle`.   *)
(***************************************************************************)
EXTENDS Integers, Sequences, FiniteSets, TLC

\* ------------------------------------------------------------------ bounds
\* Largest number of instruments in a batch.
MaxTickers == 3

Tickers == 1..MaxTickers

\* ------------------------------------------------------------ gate names
G1 == "Gate1_Spread"
G2 == "Gate2_Fundamentals"
G2B == "Gate2B_Institutional"
G3 == "Gate3_Technicals"
G4 == "Gate4_Execution"

\* The order of the gates in the funnel.
GateOrder == <<G1, G2, G2B, G3, G4>>

GateNames == {GateOrder[i] : i \in 1..Len(GateOrder)}

\* A function over a small fixed domain, kept as a table.
Tabulated(f) == f @@ <<>>

\* The position of each gate in the funnel, and the gates before it.
GateIndexOf ==
    Tabulated([g \in GateNames |->
                  CHOOSE i \in 1..Len(GateOrder) : GateOrder[i] = g])

EarlierGatesOf ==
    Tabulated([g \in GateNames |->
                  {GateOrder[i] : i \in 1..(GateIndexOf[g] - 1)}])

GateIndex(g) == GateIndexOf[g]

EarlierGates(g) == EarlierGatesOf[g]

\* ------------------------------------------------------------- sequences
Range(s) == {s[i] : i \in 1..Len(s)}

\* A Python list comprehension / dict comprehension over `s` keeps s's order.
Filter(s, keep) == SelectSeq(s, LAMBDA t : t \in keep)

\* `pat in reason` on strings, at the granularity of words.
Contains(reason, pat) ==
    \E i \in 1..Len(reason) :
        /\ i + Len(pat) - 1 <= Len(reason)
        /\ SubSeq(reason, i, i + Len(pat) - 1) = pat

\* The tickers of a set as a list in batch (dict insertion) order.
RECURSIVE SeqOf(_)
SeqOf(S) ==
    IF S = {} THEN <<>>
    ELSE LET m == CHOOSE x \in S : \A y \in S : x <= y
         IN <<m>> \o SeqOf(S \ {m})

\* --------------------------------------------------------------- gates
\* What a gate can say about one instrument.  Gate 3 has two tests: the
\* trend template ("template" is its failure) and the strength test, which
\* fails on ADX, on the relative-strength slope or on a negative RS.
Verdicts(g) ==
    IF g = G3 THEN {"pass", "template", "adx", "rs_slope", "rs_negative"}
    ELSE {"pass", "fail"}

StrengthFails == {"adx", "rs_slope", "rs_negative"}

\* The reason string a gate records, as a list of words.
ReasonOf(g, v) ==
    CASE v = "pass" -> <<"OK">>
      [] v = "fail" -> <<g, "threshold", "not", "met">>
      [] v = "template" -> <<"Trend", "template", "failed">>
      [] v = "adx" -> <<"ADX", "below", "minimum">>
      [] v = "rs_slope" -> <<"RS", "Slope", "below", "minimum">>
      [] v = "rs_negative" -> <<"RS", "Negative">>

\* The result dict of gate g for an instrument with verdict v.  `gate`
\* stands for the gate's own metric keys (spread_z, f_score, inst_ownership,
\* adx, ...), which tell which gate a result comes from.
Result(g, v) == [gate |-> g, passed |-> (v = "pass"), reason |-> ReasonOf(g, v)]

\* gate.run(input): the survivors, in input order, and a result for every
\* instrument of the input.
GateRun(g, input, v) ==
    [passed |-> Filter(input, {t \in Range(input) : v[t] = "pass"}),
     rationale |-> [t \in Range(input) |-> Result(g, v[t])]]

VARIABLES
    batch,            \* keys of ticker_data
    oracle,           \* oracle[g][t]: the verdict of gate g on t, or "unset"
    \* SwingFilter.run_pipeline
    p_pc, full_rationale, passed_g1, passed_g2, passed_g2b, passed_g3,
    passed_g4, coiling_springs, p_ret, p_calls,
    \* Orchestrator.run_scan
    s_pc, g1_passed, g2_passed, g2b_passed, finds, g1_rationale,
    g2_rationale, g2b_rationale, g3_rationale, results, all_rationale,
    snapshot, s_ret, s_calls,
    post_errors,      \* tickers of the "Post-processing failed" log lines
    \* the trade metadata of one Gate 2B survivor (lines 113-131)
    trade_in, trade_out,
    \* the cap tiers Gate 2B works with (swing_filter.py 63-76,
    \* orchestrator.py 55-83), and how far run_scan got on its way to
    \* Gate 2B
    universe, p_tiers, s_tiers, s_tier_pc,
    \* Gate 1: the spreads, the sector table and the verdicts
    g1_input, g1_ddof, g1_pc, sector_table, g1_verdicts,
    \* Gate 1 run by one worker per instrument
    workers,
    \* Gate 2: the fundamentals of one instrument and its result
    fundamentals, g2_result,
    \* the holding period of one candidate (orchestrator.py 122-123)
    pattern, period,
    \* weekly_aggregator.py: the files of logs/ and the digest written
    log_dir, digest,
    \* main_web.py: the scan state, the background tasks, the latest response
    active_scan, scan_tasks, responses,
    \* main_web.py: ConnectionManager, the websockets and the broadcasts
    active_connections, sockets, broadcasts,
    \* data_manager.py: one call of robust_yf_download
    download

pvars == <<p_pc, full_rationale, passed_g1, passed_g2, passed_g2b, passed_g3,
           passed_g4, coiling_springs, p_ret, p_calls>>

svars == <<s_pc, g1_passed, g2_passed, g2b_passed, finds, g1_rationale,
           g2_rationale, g2b_rationale, g3_rationale, results, all_rationale,
           snapshot, s_ret, s_calls, post_errors>>

tvars == <<trade_in, trade_out>>

cvars == <<universe, p_tiers, s_tiers, s_tier_pc>>

gvars == <<g1_input, g1_ddof, g1_pc, sector_table, g1_verdicts>>

jvars == <<workers>>

fvars == <<fundamentals, g2_result>>

lvars == <<pattern, period>>

wvars == <<log_dir, digest>>

avars == <<active_scan, scan_tasks, responses>>

mvars == <<active_connections, sockets, broadcasts>>

dvars == <<download>>

\* The variables the funnel leaves alone.
auxvars == <<tvars, cvars, gvars, jvars, fvars, lvars, wvars, avars, mvars,
             dvars>>

\* The variables of the funnel.
funnelvars == <<batch, oracle, pvars, svars>>

\* What the actions on each group of variables leave alone.
frame_Trade == <<funnelvars, cvars, gvars, jvars, fvars, lvars, wvars, avars,
    mvars, dvars>>

frame_Tier == <<funnelvars, tvars, gvars, jvars, fvars, lvars, wvars, avars,
    mvars, dvars>>

frame_Gate1 == <<funnelvars, tvars, cvars, jvars, fvars, lvars, wvars, avars,
    mvars, dvars>>

frame_Workers == <<funnelvars, tvars, cvars, fvars, lvars, wvars, avars,
    mvars, dvars>>

frame_Gate2 == <<funnelvars, tvars, cvars, gvars, jvars, lvars, wvars, avars,
    mvars, dvars>>

frame_Period == <<funnelvars, tvars, cvars, gvars, jvars, fvars, wvars, avars,
    mvars, dvars>>

frame_Weekly == <<funnelvars, tvars, cvars, gvars, jvars, fvars, lvars, avars,
    mvars, dvars>>

frame_Web == <<funnelvars, tvars, cvars, gvars, jvars, fvars, lvars, wvars,
    mvars, dvars>>

frame_Broadcast ==
    <<funnelvars, tvars, cvars, gvars, jvars, fvars, lvars, wvars, avars,
      dvars>>

frame_Download ==
    <<funnelvars, tvars, cvars, gvars, jvars, fvars, lvars, wvars, avars,
      mvars>>

vars == <<batch, oracle, pvars, svars, auxvars>>

\* No trade metadata is being computed.
TradeIdle == trade_in = <<>> /\ trade_out = <<>>

\* No cap tier is being resolved.
TierIdle ==
    universe = <<>> /\ p_tiers = <<>> /\ s_tiers = <<>> /\ s_tier_pc = "INIT"

\* Gate 1 has no batch.
Gate1Idle ==
    /\ g1_input = <<>>
    /\ g1_ddof = 0
    /\ g1_pc = "IDLE"
    /\ sector_table = <<>>
    /\ g1_verdicts = <<>>

\* No worker of Gate 1 exists.
WorkersIdle == workers = <<>>

\* Gate 2 has no instrument.
Gate2Idle == fundamentals = <<>> /\ g2_result = <<>>

\* No holding period is being derived.
PeriodIdle == pattern = <<>> /\ period = "none"

\* The weekly aggregator is not run.
WeeklyIdle == log_dir = <<>> /\ digest = <<>>

\* The web app is not started.
WebIdle == active_scan = <<>> /\ scan_tasks = <<>> /\ responses = <<>>

\* No websocket exists and nothing is broadcast.
ManagerIdle ==
    active_connections = <<>> /\ sockets = <<>> /\ broadcasts = <<>>

\* robust_yf_download is not called.
DownloadIdle == download = <<>>

AuxIdle ==
    /\ TradeIdle
    /\ TierIdle
    /\ Gate1Idle
    /\ WorkersIdle
    /\ Gate2Idle
    /\ PeriodIdle
    /\ WeeklyIdle
    /\ WebIdle
    /\ ManagerIdle
    /\ DownloadIdle

\* ticker_data as an ordered mapping: its keys in insertion order.
ticker_data == SeqOf(batch)

\* The verdict functions gate g may return on `input`: one verdict per
\* instrument, the same as any it gave that instrument before.
Outcomes(g, input) ==
    LET told == {t \in Range(input) : oracle[g][t] # "unset"}
    IN {[t \in Range(input) |-> IF t \in told THEN oracle[g][t] ELSE w[t]] :
           w \in [Range(input) \ told -> Verdicts(g)]}

Remember(g, v) ==
    [oracle EXCEPT ![g] = [t \in Tickers |-> IF t \in DOMAIN v THEN v[t] ELSE @[t]]]

\* The funnel before a scan of the batch b.
FunnelInit(b) ==
    /\ batch = b
    /\ oracle = [g \in GateNames |-> [t \in Tickers |-> "unset"]]
    /\ p_pc = "INIT"
    /\ full_rationale = <<>>
    /\ passed_g1 = <<>>
    /\ passed_g2 = <<>>
    /\ passed_g2b = <<>>
    /\ passed_g3 = <<>>
    /\ passed_g4 = <<>>
    /\ coiling_springs = <<>>
    /\ p_ret = <<>>
    /\ p_calls = <<>>
    /\ s_pc = "INIT"
    /\ g1_passed = <<>>
    /\ g2_passed = <<>>
    /\ g2b_passed = <<>>
    /\ finds = <<>>
    /\ g1_rationale = <<>>
    /\ g2_rationale = <<>>
    /\ g2b_rationale = <<>>
    /\ g3_rationale = <<>>
    /\ results = <<>>
    /\ all_rationale = <<>>
    /\ snapshot = [saved |-> FALSE, candidates |-> <<>>, rationale |-> <<>>]
    /\ s_ret = <<>>
    /\ s_calls = <<>>
    /\ post_errors = <<>>

\* The instruments are interchangeable, so a batch of n instruments is 1..n.
Init ==
    /\ \E n \in 0..MaxTickers : FunnelInit(1..n)
    /\ AuxIdle

\* The start of a specification of one group of variables: the funnel has
\* no batch and the other groups are idle.
OthersIdle_Trade ==
    /\ FunnelInit({})
    /\ ManagerIdle /\ DownloadIdle
    /\ TierIdle /\ Gate1Idle /\ WorkersIdle /\ Gate2Idle /\ PeriodIdle
    /\ WeeklyIdle /\ WebIdle

OthersIdle_Tier ==
    /\ FunnelInit({})
    /\ ManagerIdle /\ DownloadIdle
    /\ TradeIdle /\ Gate1Idle /\ WorkersIdle /\ Gate2Idle /\ PeriodIdle
    /\ WeeklyIdle /\ WebIdle

OthersIdle_Gate1 ==
    /\ FunnelInit({})
    /\ ManagerIdle /\ DownloadIdle
    /\ TradeIdle /\ TierIdle /\ WorkersIdle /\ Gate2Idle /\ PeriodIdle
    /\ WeeklyIdle /\ WebIdle

OthersIdle_Workers ==
    /\ FunnelInit({})
    /\ ManagerIdle /\ DownloadIdle
    /\ TradeIdle /\ TierIdle /\ Gate2Idle /\ PeriodIdle /\ WeeklyIdle /\ WebIdle

OthersIdle_Gate2 ==
    /\ FunnelInit({})
    /\ ManagerIdle /\ DownloadIdle
    /\ TradeIdle /\ TierIdle /\ Gate1Idle /\ WorkersIdle /\ PeriodIdle
    /\ WeeklyIdle /\ WebIdle

OthersIdle_Period ==
    /\ FunnelInit({})
    /\ ManagerIdle /\ DownloadIdle
    /\ TradeIdle /\ TierIdle /\ Gate1Idle /\ WorkersIdle /\ Gate2Idle
    /\ WeeklyIdle /\ WebIdle

OthersIdle_Weekly ==
    /\ FunnelInit({})
    /\ ManagerIdle /\ DownloadIdle
    /\ TradeIdle /\ TierIdle /\ Gate1Idle /\ WorkersIdle /\ Gate2Idle
    /\ PeriodIdle /\ WebIdle

OthersIdle_Web ==
    /\ FunnelInit({})
    /\ ManagerIdle /\ DownloadIdle
    /\ TradeIdle /\ TierIdle /\ Gate1Idle /\ WorkersIdle /\ Gate2Idle
    /\ PeriodIdle /\ WeeklyIdle

OthersIdle_Broadcast ==
    /\ FunnelInit({})
    /\ DownloadIdle
    /\ TradeIdle /\ TierIdle /\ Gate1Idle /\ WorkersIdle /\ Gate2Idle
    /\ PeriodIdle /\ WeeklyIdle /\ WebIdle

OthersIdle_Download ==
    /\ FunnelInit({})
    /\ ManagerIdle
    /\ TradeIdle /\ TierIdle /\ Gate1Idle /\ WorkersIdle /\ Gate2Idle
    /\ PeriodIdle /\ WeeklyIdle /\ WebIdle

\* ------------------------------------------------------ the two runs
\* run_pipeline is a plain function and run_scan has no await from its
\* first gate (orchestrator.py line 75) to its return (line 165): a run,
\* once at its first gate, ends before the other takes a step.  run_scan
\* ends by returning or by an exception that cleanup_old_charts (line 103)
\* or save_snapshot (line 162) lets through.
PipelineNotRunning == p_pc \in {"INIT", "DONE"}

ScanNotRunning ==
    s_pc \in {"INIT", "DONE", "RAISED_CLEANUP", "RAISED_SNAPSHOT"}

\* ------------------------------------------- SwingFilter.run_pipeline
\* _log_gate_results(main_log, gate_name, gate_results)
log_gate_results(main_log, gate_name, gate_results) ==
    [t \in DOMAIN main_log \cup DOMAIN gate_results |->
        IF t \in DOMAIN gate_results
        THEN (gate_name :> gate_results[t])
                 @@ (IF t \in DOMAIN main_log THEN main_log[t] ELSE <<>>)
        ELSE main_log[t]]

\* return a, b, c
PipelineReturn(cands, rationale, springs) == <<cands, rationale, springs>>

\* Lines 39-52: Gate 1 on the whole batch, then the empty check.
RunPipeline_Gate1 ==
    /\ ScanNotRunning
    /\ p_pc = "INIT"
    /\ \E v \in Outcomes(G1, ticker_data) :
        LET r == GateRun(G1, ticker_data, v)
            log == log_gate_results(<<>>, G1, r.rationale)
        IN /\ oracle' = Remember(G1, v)
           /\ p_calls' = Append(p_calls, [gate |-> G1, input |-> ticker_data])
           /\ passed_g1' = r.passed
           /\ full_rationale' = log
           /\ IF r.passed = <<>>
              THEN /\ p_pc' = "DONE"
                   /\ p_ret' = PipelineReturn(<<>>, log, <<>>)
              ELSE /\ p_pc' = "G1"
                   /\ p_ret' = p_ret
    /\ UNCHANGED <<auxvars, batch, passed_g2, passed_g2b, passed_g3, passed_g4,
                   coiling_springs, svars>>

\* A Gate 2 that is handed the whole batch instead of the Gate 1 survivors.
gate2_input_batch == ticker_data

\* Line 56: Gate 2 is given the Gate 1 survivors.
gate2_input == passed_g1

\* Lines 54-61: Gate 2 on the Gate 1 survivors, then the empty check.
RunPipeline_Gate2 ==
    /\ ScanNotRunning
    /\ p_pc = "G1"
    /\ \E v \in Outcomes(G2, gate2_input) :
        LET r == GateRun(G2, gate2_input, v)
            log == log_gate_results(full_rationale, G2, r.rationale)
        IN /\ oracle' = Remember(G2, v)
           /\ p_calls' = Append(p_calls, [gate |-> G2, input |-> gate2_input])
           /\ passed_g2' = r.passed
           /\ full_rationale' = log
           /\ IF r.passed = <<>>
              THEN /\ p_pc' = "DONE"
                   /\ p_ret' = PipelineReturn(<<>>, log, <<>>)
              ELSE /\ p_pc' = "G2"
                   /\ p_ret' = p_ret
    /\ UNCHANGED <<auxvars, batch, passed_g1, passed_g2b, passed_g3, passed_g4,
                   coiling_springs, svars>>

\* Line 76: Gate 2B is given the Gate 2 survivors.
gate2b_input == passed_g2

\* Lines 63-81: Gate 2B on the Gate 2 survivors, then the empty check.
\* market_cap_map (lines 66-74) picks the tier whose thresholds the gate
\* applies; it is an argument of the gate and changes nothing the funnel
\* keeps.  RunPipeline_Tiers models it.
RunPipeline_Gate2B ==
    /\ ScanNotRunning
    /\ p_pc = "G2"
    /\ \E v \in Outcomes(G2B, gate2b_input) :
        LET r == GateRun(G2B, gate2b_input, v)
            log == log_gate_results(full_rationale, G2B, r.rationale)
        IN /\ oracle' = Remember(G2B, v)
           /\ p_calls' = Append(p_calls, [gate |-> G2B, input |-> gate2b_input])
           /\ passed_g2b' = r.passed
           /\ full_rationale' = log
           /\ IF r.passed = <<>>
              THEN /\ p_pc' = "DONE"
                   /\ p_ret' = PipelineReturn(<<>>, log, <<>>)
              ELSE /\ p_pc' = "G2B"
                   /\ p_ret' = p_ret
    /\ UNCHANGED <<auxvars, batch, passed_g1, passed_g2, passed_g3, passed_g4,
                   coiling_springs, svars>>

\* A Gate 3 that is handed ticker_data unfiltered.
data_g2b_unfiltered == ticker_data

\* Line 85: {t: ticker_data[t] for t in passed_g2b}
data_g2b == passed_g2b

\* A watchlist test that only knows the ADX failure.
is_sniper_fail_adx_only(reason) == Contains(reason, <<"ADX">>)

\* Line 102: the Gate 3 failures that put a ticker on the watchlist.
is_sniper_fail(reason) ==
    \/ Contains(reason, <<"ADX">>)
    \/ Contains(reason, <<"RS", "Slope">>)
    \/ Contains(reason, <<"RS", "Negative">>)

\* d.get(k, {}).get("reason", "")
ReasonIn(d, k) == IF k \in DOMAIN d THEN d[k].reason ELSE <<>>

\* Lines 91-122: the Gate 2B survivors that Gate 3 failed on strength, in
\* passed_g2b order.  Of each watchlist record only the ticker and the
\* reason are kept; its other fields copy metrics of the gate results.
SpringTickers(survivors, passed, rationale) ==
    {t \in Range(survivors) :
        t \notin Range(passed) /\ is_sniper_fail(ReasonIn(rationale, t))}

Springs(survivors, passed, rationale) ==
    LET keep == Filter(survivors, SpringTickers(survivors, passed, rationale))
    IN [i \in 1..Len(keep) |->
           [ticker |-> keep[i], reason |-> ReasonIn(rationale, keep[i])]]

\* Lines 124-126: full_rationale[ticker]["status"] = "COILING_SPRING"
TagTrail(log, tagged) ==
    [t \in DOMAIN log |->
        IF t \in tagged THEN ("status" :> "COILING_SPRING") @@ log[t] ELSE log[t]]

\* Lines 83-129: Gate 3 on the Gate 2B survivors, the watchlist, then the
\* empty check.
RunPipeline_Gate3 ==
    /\ ScanNotRunning
    /\ p_pc = "G2B"
    /\ \E v \in Outcomes(G3, data_g2b) :
        LET r == GateRun(G3, data_g2b, v)
            log == log_gate_results(full_rationale, G3, r.rationale)
            springs == Springs(passed_g2b, r.passed, r.rationale)
            tagged == TagTrail(log, SpringTickers(passed_g2b, r.passed, r.rationale))
        IN /\ oracle' = Remember(G3, v)
           /\ p_calls' = Append(p_calls, [gate |-> G3, input |-> data_g2b])
           /\ passed_g3' = r.passed
           /\ coiling_springs' = springs
           /\ full_rationale' = tagged
           /\ IF r.passed = <<>>
              THEN /\ p_pc' = "DONE"
                   /\ p_ret' = PipelineReturn(<<>>, tagged, springs)
              ELSE /\ p_pc' = "G3"
                   /\ p_ret' = p_ret
    /\ UNCHANGED <<auxvars, batch, passed_g1, passed_g2, passed_g2b, passed_g4, svars>>

\* Line 132 with the dict built over the Gate 2B survivors instead.
data_g3_from_g2b == passed_g2b

\* Line 132: {t: ticker_data[t] for t in passed_g3}
data_g3 == passed_g3

\* Lines 131-137: Gate 4 on the Gate 3 survivors, and the return.
RunPipeline_Gate4 ==
    /\ ScanNotRunning
    /\ p_pc = "G3"
    /\ \E v \in Outcomes(G4, data_g3) :
        LET r == GateRun(G4, data_g3, v)
            log == log_gate_results(full_rationale, G4, r.rationale)
        IN /\ oracle' = Remember(G4, v)
           /\ p_calls' = Append(p_calls, [gate |-> G4, input |-> data_g3])
           /\ passed_g4' = r.passed
           /\ full_rationale' = log
           /\ p_pc' = "DONE"
           /\ p_ret' = PipelineReturn(r.passed, log, coiling_springs)
    /\ UNCHANGED <<auxvars, batch, passed_g1, passed_g2, passed_g2b, passed_g3,
                   coiling_springs, svars>>

\* --------------------------------------------- Orchestrator.run_scan
\* Lines 73-79: Gate 1 on the fetched batch; no survivor: return [].
RunScan_Gate1 ==
    /\ PipelineNotRunning
    /\ s_pc = "INIT"
    /\ \E v \in Outcomes(G1, ticker_data) :
        LET r == GateRun(G1, ticker_data, v)
        IN /\ oracle' = Remember(G1, v)
           /\ s_calls' = Append(s_calls, [gate |-> G1, input |-> ticker_data])
           /\ g1_passed' = r.passed
           /\ g1_rationale' = r.rationale
           /\ s_pc' = IF r.passed = <<>> THEN "DONE" ELSE "G1"
    /\ s_ret' = <<>>
    /\ UNCHANGED <<auxvars, batch, pvars, post_errors,
                   g2_passed, g2b_passed, finds, g2_rationale,
                   g2b_rationale, g3_rationale, results, all_rationale, snapshot>>

\* Lines 81-82: Gate 2 on the Gate 1 survivors.
RunScan_Gate2 ==
    /\ PipelineNotRunning
    /\ s_pc = "G1"
    /\ \E v \in Outcomes(G2, g1_passed) :
        LET r == GateRun(G2, g1_passed, v)
        IN /\ oracle' = Remember(G2, v)
           /\ s_calls' = Append(s_calls, [gate |-> G2, input |-> g1_passed])
           /\ g2_passed' = r.passed
           /\ g2_rationale' = r.rationale
           /\ s_pc' = "G2"
    /\ UNCHANGED <<auxvars, batch, pvars, post_errors,
                   g1_passed, g2b_passed, finds, g1_rationale,
                   g2b_rationale, g3_rationale, results, all_rationale, snapshot,
                   s_ret>>

\* Lines 83-87: Gate 2B on the Gate 2 survivors; no survivor: return [].
RunScan_Gate2B ==
    /\ PipelineNotRunning
    /\ s_pc = "G2"
    /\ \E v \in Outcomes(G2B, g2_passed) :
        LET r == GateRun(G2B, g2_passed, v)
        IN /\ oracle' = Remember(G2B, v)
           /\ s_calls' = Append(s_calls, [gate |-> G2B, input |-> g2_passed])
           /\ g2b_passed' = r.passed
           /\ g2b_rationale' = r.rationale
           /\ s_pc' = IF r.passed = <<>> THEN "DONE" ELSE "G2B"
    /\ s_ret' = <<>>
    /\ UNCHANGED <<auxvars, batch, pvars, post_errors,
                   g1_passed, g2_passed, finds, g1_rationale,
                   g2_rationale, g3_rationale, results, all_rationale, snapshot>>

\* Line 89: {t: ticker_data[t] for t in g2b_passed}
g3_data == g2b_passed

\* Lines 94-99: every Gate 2B survivor that is not a find is tagged.
TagGate3(rationale, survivors, found) ==
    [t \in DOMAIN rationale \cup (Range(survivors) \ Range(found)) |->
        IF t \in Range(survivors) \ Range(found)
        THEN IF t \in DOMAIN rationale
             THEN ("status" :> "COILING_SPRING") @@ rationale[t]
             ELSE [passed |-> FALSE, status |-> "COILING_SPRING",
                   reason |-> <<"Technical", "filters", "not", "met">>]
        ELSE rationale[t]]

\* Lines 89-99: Gate 3 on the Gate 2B survivors, then the tagging.
RunScan_Gate3 ==
    /\ PipelineNotRunning
    /\ s_pc = "G2B"
    /\ \E v \in Outcomes(G3, g3_data) :
        LET r == GateRun(G3, g3_data, v)
        IN /\ oracle' = Remember(G3, v)
           /\ s_calls' = Append(s_calls, [gate |-> G3, input |-> g3_data])
           /\ finds' = r.passed
           /\ g3_rationale' = TagGate3(r.rationale, g2b_passed, r.passed)
           /\ s_pc' = "G3"
    /\ UNCHANGED <<auxvars, batch, pvars, post_errors,
                   g1_passed, g2_passed, g2b_passed, g1_rationale,
                   g2_rationale, g2b_rationale, results, all_rationale, snapshot,
                   s_ret>>

\* ------------------------------------------------- trade metadata
\* Prices are counted in thousandths of a rupee.
\* round(float(x), 2): the nearest hundredth.  A decimal half is seldom a
\* binary half, so a value that sits on the half in thousandths goes up or
\* down with its binary expansion: `up` tells which.
Round2(x, up) ==
    LET r == x % 10
    IN IF r < 5 THEN x - r
       ELSE IF r > 5 THEN x - r + 10
       ELSE IF up THEN x + 5 ELSE x - 5

\* The values round(float(x), 2) can give.
Round2s(x) == {Round2(x, up) : up \in BOOLEAN}

\* Line 118: sl = entry - (2 * atr)
StopLoss(entry, atr) == entry - (2 * atr)

\* Line 119: risk = entry - sl
Risk(entry, sl) == entry - sl

\* A target three risks above the entry.
Target_three_risks(entry, risk) == entry + (3 * risk)

\* Line 120: target = entry + (2 * risk)
Target(entry, risk) == entry + (2 * risk)

\* Lines 118-120: the stop and the target before rounding.
RawTrade(entry, atr) ==
    LET sl == StopLoss(entry, atr)
    IN [entry |-> entry, sl |-> sl, target |-> Target(entry, Risk(entry, sl))]

\* Lines 125-131: the trade_meta dicts the rounding can give (the period
\* label, which hangs on the chart pattern, is left out).
TradeMetas(entry, atr) ==
    LET raw == RawTrade(entry, atr)
    IN {[entry |-> Round2(raw.entry, up[raw.entry]),
         sl |-> Round2(raw.sl, up[raw.sl]),
         target |-> Round2(raw.target, up[raw.target]),
         risk_reward |-> "1:2"] :
            up \in [{raw.entry, raw.sl, raw.target} -> BOOLEAN]}

\* Line 114: df['Close'].iloc[-1] of the batch's sample price series.
LastClose(ticker) == 100000 + (250 * ticker)

\* Line 117: the last 14-day ATR of the sample price series.
LastATR(ticker) == 123 + (1000 * ticker)

\* Lines 113-131 on the sample price series of each instrument.
SampleTrade ==
    Tabulated([t \in Tickers |->
                  CHOOSE m \in TradeMetas(LastClose(t), LastATR(t)) : TRUE])

\* Line 140: "BUY" if ticker in finds else "COILING_SPRING"
ScanStatus(ticker, found) ==
    IF ticker \in Range(found) THEN "BUY" ELSE "COILING_SPRING"

\* Lines 111, 138-155: the record of one Gate 2B survivor.
ScanRecord(ticker, found, rationale) ==
    [ticker |-> ticker,
     status |-> ScanStatus(ticker, found),
     reason |-> IF ticker \in DOMAIN rationale THEN rationale[ticker].reason
                ELSE <<"Consolidating">>,
     trade |-> SampleTrade[ticker]]

\* {**a, **b}: b's entry replaces a's under the same key.
DictMerge(a, b) ==
    [t \in DOMAIN a \cup DOMAIN b |-> IF t \in DOMAIN b THEN b[t] ELSE a[t]]

\* Line 161: {**g1_rationale, **g2_rationale, **g2b_rationale, **g3_rationale}
MergeRationale(r1, r2, r2b, r3) ==
    DictMerge(DictMerge(DictMerge(r1, r2), r2b), r3)

\* Lines 107-157: the Gate 2B survivors that get a record, in order: those
\* whose post-processing does not raise.
PostProcessed(survivors, raised) == Filter(survivors, Range(survivors) \ raised)

\* Lines 173-188: what a call of save_snapshot does.  "written": the file
\* holds the candidates and the rationale.  "failed": open or json.dump
\* raised inside the try (lines 177-188), the error is logged and the
\* caller goes on.  "raised": os.makedirs (line 175), which is outside the
\* try, raised, and the exception goes to the caller.
SnapshotOutcomes == {"written", "failed", "raised"}

\* Lines 173-188: the snapshot save_snapshot leaves: the candidates and the
\* rationale when the file was written, no readable snapshot otherwise.
save_snapshot(candidates, rationale, outcome) ==
    IF outcome = "written"
    THEN [saved |-> TRUE, candidates |-> candidates, rationale |-> rationale]
    ELSE [saved |-> FALSE, candidates |-> <<>>, rationale |-> <<>>]

\* Lines 101-165.  cleanup_old_charts (line 103) is called outside any
\* try: when it raises, run_scan raises with it.  Otherwise: a record for
\* every Gate 2B survivor whose post-processing (ATR, charts) does not
\* raise, the merge of the rationale, the snapshot, written or not, and the
\* return; when save_snapshot raises (line 162), run_scan raises with it
\* and returns nothing.
RunScan_Results ==
    /\ PipelineNotRunning
    /\ s_pc = "G3"
    /\ \/ /\ s_pc' = "RAISED_CLEANUP"
          /\ UNCHANGED <<results, all_rationale, snapshot, s_ret, post_errors>>
       \/ LET merged == MergeRationale(g1_rationale, g2_rationale,
                                       g2b_rationale, g3_rationale)
          IN \E raised \in SUBSET Range(g2b_passed) :
              LET kept == PostProcessed(g2b_passed, raised)
                  recs == [i \in 1..Len(kept) |->
                              ScanRecord(kept[i], finds, g3_rationale)]
              IN /\ results' = recs
                 /\ all_rationale' = merged
                 /\ post_errors' = Filter(g2b_passed, raised)
                 /\ \E outcome \in SnapshotOutcomes :
                       /\ snapshot' = save_snapshot(recs, merged, outcome)
                       /\ s_ret' = IF outcome = "raised" THEN s_ret ELSE recs
                       /\ s_pc' = IF outcome = "raised" THEN "RAISED_SNAPSHOT"
                                  ELSE "DONE"
    /\ UNCHANGED <<auxvars, batch, oracle, pvars,
                   g1_passed, g2_passed, g2b_passed, finds,
                   g1_rationale, g2_rationale, g2b_rationale, g3_rationale, s_calls>>

Next ==
    \/ RunPipeline_Gate1
    \/ RunPipeline_Gate2
    \/ RunPipeline_Gate2B
    \/ RunPipeline_Gate3
    \/ RunPipeline_Gate4
    \/ RunScan_Gate1
    \/ RunScan_Gate2
    \/ RunScan_Gate2B
    \/ RunScan_Gate3
    \/ RunScan_Results

Spec == Init /\ [][Next]_vars

\* The funnel again, for the claims about the survivors the two runs keep
\* and tag.
SpecReturns == Init /\ [][Next]_vars

\* ----------------------------------------------------------- properties
\* run_scan merged the rationale (line 161): it went on to return its
\* records (line 165), with its snapshot written or not, or to raise out
\* of save_snapshot (line 162).
ScanMerged == s_pc \in {"DONE", "RAISED_SNAPSHOT"} /\ g2b_passed # <<>>

\* The per-gate rationale dicts of run_scan, by gate name.
ScanRationale(g) ==
    CASE g = G1 -> g1_rationale
      [] g = G2 -> g2_rationale
      [] g = G2B -> g2b_rationale
      [] g = G3 -> g3_rationale
      [] OTHER -> <<>>

\* The survivor lists of the stages, in gate order.
PipelineSurvivors == <<passed_g1, passed_g2, passed_g2b, passed_g3, passed_g4>>

ScanSurvivors == <<g1_passed, g2_passed, g2b_passed, finds>>

\* Gate g has been invoked in the run whose calls are `calls`.
Invoked(calls, g) == \E i \in 1..Len(calls) : calls[i].gate = g

\* Gate g evaluated ticker t in that run.
Evaluated(calls, g, t) ==
    \E i \in 1..Len(calls) : calls[i].gate = g /\ t \in Range(calls[i].input)

PassedAllBefore(g, t) == \A e \in EarlierGates(g) : oracle[e][t] = "pass"

TickersOf(recs) == {recs[i].ticker : i \in 1..Len(recs)}

\* C1: strict monotonic narrowing of the audit trail.  A ticker has an entry
\* of a gate, in the trail of run_pipeline, in a per-gate rationale of
\* run_scan or in its merged trail, only if it passed every earlier gate.
C1_MonotonicNarrowing ==
    /\ \A t \in DOMAIN full_rationale :
         \A g \in GateNames \cap DOMAIN full_rationale[t] :
            /\ PassedAllBefore(g, t)
            /\ \A e \in EarlierGates(g) :
                  e \in DOMAIN full_rationale[t] /\ full_rationale[t][e].passed
    /\ \A g \in GateNames :
         \A t \in DOMAIN ScanRationale(g) : PassedAllBefore(g, t)
    /\ \A t \in DOMAIN all_rationale :
         "gate" \in DOMAIN all_rationale[t] => PassedAllBefore(all_rationale[t].gate, t)

\* C1 witness: run_pipeline has returned with one ticker stopped at a failed
\* Gate 2 and another evaluated by Gate 4, and run_scan has merged a trail
\* that holds a ticker rejected by Gate 1.
C1_Witness ==
    /\ p_pc = "DONE"
    /\ \E t \in DOMAIN full_rationale :
         /\ GateNames \cap DOMAIN full_rationale[t] = {G1, G2}
         /\ ~full_rationale[t][G2].passed
    /\ \E u \in DOMAIN full_rationale : G4 \in DOMAIN full_rationale[u]
    /\ snapshot.saved
    /\ \E t \in DOMAIN all_rationale :
         all_rationale[t].gate = G1 /\ ~all_rationale[t].passed

\* C2: the survivor sets are nested, stage by stage, in both orchestrations,
\* and every returned candidate or coiling spring is a Gate 2B survivor.
C2_NestedSurvivors ==
    /\ Range(passed_g4) \subseteq Range(passed_g3)
    /\ Range(passed_g3) \subseteq Range(passed_g2b)
    /\ Range(passed_g2b) \subseteq Range(passed_g2)
    /\ Range(passed_g2) \subseteq Range(passed_g1)
    /\ Range(passed_g1) \subseteq batch
    /\ Range(finds) \subseteq Range(g2b_passed)
    /\ Range(g2b_passed) \subseteq Range(g2_passed)
    /\ Range(g2_passed) \subseteq Range(g1_passed)
    /\ Range(g1_passed) \subseteq batch
    /\ TickersOf(coiling_springs) \subseteq Range(passed_g2b)
    /\ p_pc = "DONE" =>
         /\ Range(p_ret[1]) \subseteq Range(passed_g2b)
         /\ TickersOf(p_ret[3]) \subseteq Range(passed_g2b)
    /\ TickersOf(results) \subseteq Range(g2b_passed)
    /\ TickersOf(s_ret) \subseteq Range(g2b_passed)

\* C2 witness: both runs are over, Gate 1 rejected a ticker, run_pipeline
\* returns a candidate and run_scan returns a BUY and a COILING_SPRING.
C2_Witness ==
    /\ p_pc = "DONE" /\ s_pc = "DONE"
    /\ Range(passed_g1) # batch
    /\ p_ret[1] # <<>>
    /\ \E i, j \in 1..Len(s_ret) :
         s_ret[i].status = "BUY" /\ s_ret[j].status = "COILING_SPRING"

\* C7: soft fail.  A Gate 2B survivor that Gate 3 failed on the strength
\* test is tagged COILING_SPRING, is in no input of Gate 4, and keeps its
\* Gate 3 result in the trail.
C7_SoftFailTagged ==
    /\ \A t \in Range(passed_g2b) :
         (Invoked(p_calls, G3) /\ oracle[G3][t] \in StrengthFails) =>
            /\ t \in TickersOf(coiling_springs)
            /\ "status" \in DOMAIN full_rationale[t]
            /\ full_rationale[t]["status"] = "COILING_SPRING"
            /\ full_rationale[t][G3] = Result(G3, oracle[G3][t])
            /\ ~Evaluated(p_calls, G4, t)
            /\ p_pc = "DONE" =>
                 /\ t \in TickersOf(p_ret[3])
                 /\ t \notin Range(p_ret[1])
                 /\ p_ret[2][t]["status"] = "COILING_SPRING"
                 /\ p_ret[2][t][G3] = Result(G3, oracle[G3][t])
    /\ \A t \in Range(g2b_passed) :
         (Invoked(s_calls, G3) /\ oracle[G3][t] \in StrengthFails) =>
            /\ "status" \in DOMAIN g3_rationale[t]
            /\ g3_rationale[t].status = "COILING_SPRING"
            /\ g3_rationale[t].gate = G3
            /\ g3_rationale[t].reason = ReasonOf(G3, oracle[G3][t])
            /\ ~Evaluated(s_calls, G4, t)
            /\ s_pc = "DONE" =>
                 /\ all_rationale[t] = g3_rationale[t]
                 /\ snapshot.saved => snapshot.rationale[t] = g3_rationale[t]
                 /\ \A i \in 1..Len(s_ret) :
                       s_ret[i].ticker = t => s_ret[i].status = "COILING_SPRING"

\* C7 witness: both runs are over; run_pipeline ran Gate 4 after putting a
\* ticker with a failing RS slope on the watchlist, and run_scan returns a
\* ticker with a failing ADX.
C7_Witness ==
    /\ p_pc = "DONE" /\ s_pc = "DONE"
    /\ Invoked(p_calls, G4)
    /\ \E t \in TickersOf(coiling_springs) : oracle[G3][t] = "rs_slope"
    /\ \E t \in TickersOf(s_ret) : oracle[G3][t] = "adx"

\* The gates are invoked in funnel order, none twice, and each after the
\* first only when the stage before it left a survivor.
LinearGated(calls, survivors) ==
    /\ Len(calls) <= Len(GateOrder)
    /\ \A i \in 1..Len(calls) : calls[i].gate = GateOrder[i]
    /\ \A i \in 2..Len(calls) : survivors[i - 1] # <<>>

\* C3: the funnel is a strictly linear state machine: gates are invoked in
\* the order Gate 1, 2, 2B, 3, 4, none twice, and the next gate is invoked
\* only when the previous stage's survivor set is non-empty.
C3_LinearGated ==
    /\ LinearGated(p_calls, PipelineSurvivors)
    /\ LinearGated(s_calls, ScanSurvivors)

\* A run short-circuits at the first of stages 1..4 that leaves no
\* survivor: it is over, no later gate was invoked, the candidate list is
\* empty and the trail it returns covers every instrument evaluated.
ShortCircuits(pc, calls, survivors, cands, trail) ==
    \A k \in 1..4 :
        (Len(calls) >= k /\ survivors[k] = <<>>) =>
            /\ pc = "DONE"
            /\ Len(calls) = k
            /\ cands = <<>>
            /\ \A i \in 1..k : Range(calls[i].input) \subseteq DOMAIN trail

\* C4: short-circuit with a partial audit trail, in both orchestrations.
\* run_scan returns its results only; the trail it puts out is the one of
\* its snapshot.
C4_ShortCircuitPartialTrail ==
    /\ ShortCircuits(p_pc, p_calls, PipelineSurvivors,
                     IF p_pc = "DONE" THEN p_ret[1] ELSE <<>>,
                     IF p_pc = "DONE" THEN p_ret[2] ELSE <<>>)
    /\ ShortCircuits(s_pc, s_calls, ScanSurvivors, s_ret, snapshot.rationale)

\* C5: on an empty batch the pipeline returns exactly the pair ([], {}).
C5_EmptyBatchPair ==
    batch = {} =>
        /\ p_pc = "DONE" => p_ret = << <<>>, <<>> >>
        /\ s_pc = "DONE" => s_ret = << <<>>, <<>> >>

\* Gate g evaluated t in that run, and passed it.
EvaluatedPass(calls, g, t) == Evaluated(calls, g, t) /\ oracle[g][t] = "pass"

\* C6: every candidate with status BUY passed all five gates in that scan.
\* The candidates of run_pipeline are its BUY list.
C6_BuyPassedAllGates ==
    /\ p_pc = "DONE" =>
         \A t \in Range(p_ret[1]) :
            \A g \in GateNames : EvaluatedPass(p_calls, g, t)
    /\ \A i \in 1..Len(s_ret) :
         s_ret[i].status = "BUY" =>
            \A g \in GateNames : EvaluatedPass(s_calls, g, s_ret[i].ticker)

\* t carries the COILING_SPRING tag in the dict d.
Tagged(d, t) == t \in DOMAIN d /\ "status" \in DOMAIN d[t]

\* C8: hard reject.  A ticker that fails the Gate 3 trend template never
\* gets COILING_SPRING: not in the candidate list, not in the watchlist and
\* not in a rationale.
C8_HardRejectNeverCoiling ==
    \A t \in Tickers :
        oracle[G3][t] = "template" =>
            /\ t \notin TickersOf(coiling_springs)
            /\ ~Tagged(full_rationale, t)
            /\ ~Tagged(g3_rationale, t)
            /\ ~Tagged(all_rationale, t)
            /\ \A i \in 1..Len(results) :
                  results[i].ticker = t => results[i].status # "COILING_SPRING"

\* The flat entry e is the result gate g gave ticker t.
IsResultOf(e, g, t) ==
    /\ "gate" \in DOMAIN e
    /\ e.gate = g
    /\ e.passed = (oracle[g][t] = "pass")
    /\ e.reason = ReasonOf(g, oracle[g][t])

\* C9: the trail a finished scan puts out has an entry for every ticker that
\* entered Gate 1, with the result of every gate that evaluated the ticker.
C9_TrailComplete ==
    /\ p_pc = "DONE" =>
         \A t \in batch :
            /\ t \in DOMAIN p_ret[2]
            /\ \A g \in GateNames :
                  Evaluated(p_calls, g, t) =>
                     /\ g \in DOMAIN p_ret[2][t]
                     /\ IsResultOf(p_ret[2][t][g], g, t)
    /\ (s_pc = "DONE" /\ snapshot.saved) =>
         \A t \in batch :
            /\ t \in DOMAIN snapshot.rationale
            /\ \A g \in GateNames :
                  Evaluated(s_calls, g, t) => IsResultOf(snapshot.rationale[t], g, t)

\* The trail of run_scan holds gate g's entry for t: in the per-gate
\* rationale until the merge, in the merged trail after it.
ScanHolds(g, t) ==
    IF ScanMerged
    THEN t \in DOMAIN all_rationale /\ "gate" \in DOMAIN all_rationale[t]
            /\ all_rationale[t].gate = g
    ELSE t \in DOMAIN ScanRationale(g)

ScanEntry(g, t) == IF ScanMerged THEN all_rationale[t] ELSE ScanRationale(g)[t]

\* C10: the trail is append-only.  No step, the final merge included,
\* removes or changes a (ticker, gate) entry once written.
C10_AppendOnly ==
    [][/\ \A t \in DOMAIN full_rationale :
            \A g \in GateNames \cap DOMAIN full_rationale[t] :
               /\ t \in DOMAIN full_rationale'
               /\ g \in DOMAIN full_rationale'[t]
               /\ full_rationale'[t][g] = full_rationale[t][g]
       /\ \A g \in GateNames :
            \A t \in Tickers :
               ScanHolds(g, t) =>
                  /\ ScanHolds(g, t)'
                  /\ ScanEntry(g, t)' = ScanEntry(g, t)]_vars

\* e is a gate result: it carries passed and a non-empty reason (the gate
\* field stands for the metrics the result carries).
IsGateResult(e) ==
    /\ {"passed", "reason", "gate"} \subseteq DOMAIN e
    /\ e.passed \in BOOLEAN
    /\ e.reason # <<>>

\* The trail is keyed by ticker, then by gate name only, and holds a gate
\* result under every gate name.
GateKeyed(trail) ==
    \A t \in DOMAIN trail :
        /\ DOMAIN trail[t] \subseteq GateNames
        /\ \A g \in DOMAIN trail[t] : IsGateResult(trail[t][g])

\* C11: the audit trail is keyed by ticker and then by gate name only; every
\* value under a ticker is a gate result with passed, metrics and a non-empty
\* reason, and no other key, such as a status tag, sits at the gate-name
\* level.  Stated of the trail run_pipeline builds and returns and of the
\* trail run_scan merges and saves.
C11_TrailGateKeyed ==
    /\ GateKeyed(full_rationale)
    /\ p_pc = "DONE" => GateKeyed(p_ret[2])
    /\ GateKeyed(all_rationale)
    /\ GateKeyed(snapshot.rationale)

\* Every gate after the first was handed exactly the survivor list of the
\* stage before it, and so only tickers that passed every earlier gate.
FedBySurvivors(calls, survivors) ==
    \A i \in 1..Len(calls) :
        LET k == GateIndex(calls[i].gate)
        IN /\ k > 1 => calls[i].input = survivors[k - 1]
           /\ \A t \in Range(calls[i].input) : PassedAllBefore(calls[i].gate, t)

\* C12: each gate is invoked only on the survivors of the preceding stage:
\* the input of Gate 2 is exactly the Gate 1 survivors, of Gate 2B the Gate 2
\* survivors, of Gate 3 the Gate 2B survivors and of Gate 4 the Gate 3
\* survivors, in both orchestrations.
C12_FedBySurvivors ==
    /\ FedBySurvivors(p_calls, PipelineSurvivors)
    /\ FedBySurvivors(s_calls, ScanSurvivors)

\* C12 witness: run_pipeline has invoked Gate 4 after Gates 1 and 3 each
\* rejected a ticker, and run_scan has invoked Gate 3 after Gate 1 rejected
\* one.
C12_Witness ==
    /\ Invoked(p_calls, G4)
    /\ Len(passed_g1) < Len(ticker_data)
    /\ Len(passed_g3) < Len(passed_g2b)
    /\ Invoked(s_calls, G3)
    /\ Len(g1_passed) < Len(ticker_data)
    /\ g2b_passed # <<>>

\* The tickers of a list of records, in list order.
TickerList(recs) == [i \in 1..Len(recs) |-> recs[i].ticker]

\* Every record carries trade metadata with an entry, a stop and a target.
HasTradeMeta(recs) ==
    \A i \in 1..Len(recs) :
        /\ "trade" \in DOMAIN recs[i]
        /\ {"entry", "sl", "target"} \subseteq DOMAIN recs[i].trade

\* run_scan ran to its end and returned (line 165).
ScanReachedEnd == s_pc = "DONE" /\ g2b_passed # <<>>

\* C13: a scan that reaches its end returns exactly one record
\* with trade metadata for every Gate 2B survivor, none dropped, none added.
C13_RecordPerSurvivor ==
    ScanReachedEnd =>
        /\ TickerList(s_ret) = g2b_passed
        /\ HasTradeMeta(s_ret)

\* ------------------------------------- Orchestrator.run_scan, lines 113-131
\* The last close and the last ATR of a Gate 2B survivor, in thousandths:
\* closes around 100.000 over two full hundredths, ATRs from zero up.
BaseClose == 100 * 1000

MaxCloseStep == 19

MaxAtr == 40

EntryValues == BaseClose..(BaseClose + MaxCloseStep)

AtrValues == 0..MaxAtr

InitTrade ==
    /\ OthersIdle_Trade
    /\ trade_in \in [entry : EntryValues, atr : AtrValues]
    /\ trade_out = <<>>

\* Lines 113-131: the trade metadata of one survivor.
RunScan_TradeMeta ==
    /\ trade_in # <<>>
    /\ trade_out = <<>>
    /\ \E m \in TradeMetas(trade_in.entry, trade_in.atr) : trade_out' = m
    /\ UNCHANGED <<frame_Trade, trade_in>>

NextTrade == RunScan_TradeMeta

SpecTrade == InitTrade /\ [][NextTrade]_vars

\* How far the emitted target is from entry + 2 * (entry - stop).
RewardRiskGap(m) ==
    LET d == m.target - (m.entry + (2 * (m.entry - m.sl)))
    IN IF d < 0 THEN 0 - d ELSE d

\* C14 as stated: on the values as emitted, after rounding to 2 decimals,
\* target = entry + 2 * (entry - stop) exactly, and whenever stop < entry the
\* ratio (target - entry) / (entry - stop) is exactly 2.
C14_ExactRewardRisk ==
    trade_out # <<>> =>
        /\ trade_out.target = trade_out.entry + (2 * (trade_out.entry - trade_out.sl))
        /\ trade_out.sl < trade_out.entry =>
              trade_out.target - trade_out.entry = 2 * (trade_out.entry - trade_out.sl)

\* C14, amended: the values before rounding satisfy
\* target = entry + 2 * (entry - stop) exactly; the emitted values, each
\* rounded to 2 decimals on its own, satisfy it to within 0.03, so the
\* emitted reward-to-risk ratio is 2 up to rounding only.
C14_RewardRiskUpToRounding ==
    trade_out # <<>> =>
        LET raw == RawTrade(trade_in.entry, trade_in.atr)
        IN /\ raw.target = raw.entry + (2 * (raw.entry - raw.sl))
           /\ trade_out.entry \in Round2s(raw.entry)
           /\ trade_out.sl \in Round2s(raw.sl)
           /\ trade_out.target \in Round2s(raw.target)
           /\ RewardRiskGap(trade_out) <= 3 * 10

\* C14 witness: a candidate is emitted with its stop below its entry and
\* its rounded target off entry + 2 * (entry - stop) by a hundredth or more.
C14_Witness ==
    /\ trade_out # <<>>
    /\ trade_out.sl < trade_out.entry
    /\ RewardRiskGap(trade_out) >= 10

\* C15: an instrument whose computed stop is at or above its entry (an ATR
\* of zero or less) is rejected: no candidate is emitted with stop >= entry.
C15_StopBelowEntry ==
    trade_out # <<>> => trade_out.sl < trade_out.entry

\* ---------------------------------------------- the cap tiers of Gate 2B
\* Python values: a string, or a metadata dict, of which v is the
\* "market_cap" entry ("<none>" when the dict has no such key).
PyStr(s) == [py |-> "str", v |-> s]

PyDict(cap) == [py |-> "dict", v |-> cap]

CapTiers == {"LARGE", "MID", "SMALL"}

\* The values a metadata mapping holds for a ticker: a sector name (legacy
\* format) or a metadata dict with a cap tier, with another market_cap
\* value, or with none.
MetaValues ==
    {PyStr("Tech")} \cup {PyDict(c) : c \in CapTiers \cup {"MICRO", "<none>"}}

\* isinstance(meta, dict)
IsDict(meta) == meta.py = "dict"

\* meta.get("market_cap", "LARGE")
MetaGet_default_large(meta) ==
    IF meta.v = "<none>" THEN PyStr("LARGE") ELSE PyStr(meta.v)

\* swing_filter.py line 71: meta.get("market_cap", "SMALL")
MetaGet(meta) ==
    IF meta.v = "<none>" THEN PyStr("SMALL") ELSE PyStr(meta.v)

\* swing_filter.py lines 66-74: the market_cap_map run_pipeline builds from
\* sector_map, whose first value is that of the key `first`.
market_cap_map(sector_map, first, survivors) ==
    IF DOMAIN sector_map # {} /\ IsDict(sector_map[first])
    THEN [t \in {k \in DOMAIN sector_map : IsDict(sector_map[k])} |->
              MetaGet(sector_map[t])]
    ELSE [t \in Range(survivors) |-> PyStr("SMALL")]

\* Gate 2B, from the specification (section 4.3): the thresholds it applies
\* to a ticker are those of the cap tier the mapping it is handed resolves
\* for the ticker, a tier name or the market_cap of a metadata dict, and
\* those of SMALL when the ticker is absent or no tier of LARGE, MID, SMALL
\* is resolved.
Gate2B_Tier(cap_map, ticker) ==
    LET v == IF ticker \in DOMAIN cap_map THEN cap_map[ticker].v ELSE "<none>"
    IN IF v \in CapTiers THEN v ELSE "SMALL"

\* The metadata mapping: the sector_map argument of run_pipeline, the
\* universe of run_scan.
InitTier ==
    /\ OthersIdle_Tier
    /\ \E known \in SUBSET Tickers : universe \in [known -> MetaValues]
    /\ p_tiers = <<>>
    /\ s_tiers = <<>>
    /\ s_tier_pc = "INIT"

\* swing_filter.py lines 58-76: the tiers of gate2b.run(passed_g2,
\* market_cap_map).  passed_g2 is any list of tickers of ticker_data, which
\* is an argument of its own, and is not empty: run_pipeline returns at
\* line 59 before it comes to Gate 2B otherwise.
RunPipeline_Tiers ==
    /\ p_tiers = <<>>
    /\ \E passed \in (SUBSET Tickers) \ {{}} :
        \E first \in (IF universe = <<>> THEN {0} ELSE DOMAIN universe) :
            LET m == market_cap_map(universe, first, SeqOf(passed))
            IN p_tiers' = [t \in passed |-> Gate2B_Tier(m, t)]
    /\ UNCHANGED <<frame_Tier, universe, s_tiers, s_tier_pc>>

\* orchestrator.py lines 66-68: universe[t]['sector'] = sector, for every
\* key t of ticker_sectors that universe holds, raises TypeError when the
\* value universe holds for t is a str.  On a dict it sets the "sector"
\* entry, which no cap tier depends on.
SectorMergeRaises(meta, sectored) ==
    \E t \in sectored \cap DOMAIN meta : ~IsDict(meta[t])

\* orchestrator.py lines 55-83, from the universe to Gate 2B.  ticker_data
\* holds the tickers of the universe whose series could be fetched (lines
\* 55, 61; data_manager.py lines 365-369), and ticker_sectors has a key for
\* each of them (line 65; data_manager.py lines 371-384).  When the merge of
\* the sectors raises, run_scan raises with it; with no Gate 1 survivor it
\* returns at line 79; otherwise Gate 2B is run on the Gate 2 survivors,
\* which are Gate 1 survivors, which are tickers of ticker_data.
RunScan_Tiers ==
    /\ s_tier_pc = "INIT"
    /\ \E fetched \in SUBSET DOMAIN universe :
        IF SectorMergeRaises(universe, fetched)
        THEN /\ s_tier_pc' = "TypeError"
             /\ s_tiers' = s_tiers
        ELSE \E g1 \in SUBSET fetched :
                \E g2 \in SUBSET g1 :
                    IF g1 = {}
                    THEN /\ s_tier_pc' = "RETURNED"
                         /\ s_tiers' = s_tiers
                    ELSE /\ s_tier_pc' = "G2B"
                         /\ s_tiers' = [t \in g2 |-> Gate2B_Tier(universe, t)]
    /\ UNCHANGED <<frame_Tier, universe, p_tiers>>

NextTier ==
    \/ RunPipeline_Tiers
    \/ RunScan_Tiers

SpecTier == InitTier /\ [][NextTier]_vars

\* The metadata resolve no cap tier for the ticker: it is absent, or its
\* value is no dict, or the dict has no market_cap among LARGE, MID, SMALL.
Unresolved(meta, ticker) ==
    \/ ticker \notin DOMAIN meta
    \/ ~IsDict(meta[ticker])
    \/ meta[ticker].v \notin CapTiers

\* C16: a Gate 2B evaluation of a ticker whose cap tier is not resolved
\* (absent from the metadata, or not one of LARGE/MID/SMALL) uses the SMALL
\* tier, in run_pipeline and in run_scan.
C16_UnresolvedTierSmall ==
    \A t \in Tickers :
        Unresolved(universe, t) =>
            /\ t \in DOMAIN p_tiers => p_tiers[t] = "SMALL"
            /\ t \in DOMAIN s_tiers => s_tiers[t] = "SMALL"

\* C16 witness: run_pipeline has run Gate 2B on a ticker the metadata leave
\* out, on one whose metadata dict has no market_cap and on one resolved to
\* LARGE, which it evaluates as LARGE; run_scan has run Gate 2B on a ticker
\* whose metadata dict has no market_cap and on one resolved to LARGE.
C16_Witness ==
    /\ \E t \in DOMAIN p_tiers : t \notin DOMAIN universe
    /\ \E t \in DOMAIN p_tiers \cap DOMAIN universe :
         universe[t] = PyDict("<none>")
    /\ \E t \in DOMAIN p_tiers \cap DOMAIN universe :
         universe[t] = PyDict("LARGE") /\ p_tiers[t] = "LARGE"
    /\ s_tier_pc = "G2B"
    /\ \E t \in DOMAIN s_tiers : universe[t] = PyDict("<none>")
    /\ \E t \in DOMAIN s_tiers :
         universe[t] = PyDict("LARGE") /\ s_tiers[t] = "LARGE"

\* The reasons the gates give for their verdicts.
GateReasons == UNION {{ReasonOf(g, v) : v \in Verdicts(g)} : g \in GateNames}

\* The entry e records a failure of the evaluation itself: a failed result
\* whose reason is about the error, not a gate's verdict.
RecordsFailure(e) ==
    /\ {"passed", "reason"} \subseteq DOMAIN e
    /\ ~e.passed
    /\ e.reason # <<>>
    /\ e.reason \notin GateReasons

\* C17: no error raised while evaluating one instrument aborts the scan: the
\* failure is caught, recorded as a failed gate result with a reason for
\* that instrument, and every other instrument is still evaluated and
\* reported.  Stated of the post-processing of run_scan, the one place of
\* the orchestration that catches per-instrument errors.
C17_FailureRecorded ==
    ScanReachedEnd =>
        /\ \A t \in Range(post_errors) :
              /\ t \in DOMAIN snapshot.rationale
              /\ RecordsFailure(snapshot.rationale[t])
        /\ Range(g2b_passed) \ Range(post_errors) \subseteq TickersOf(s_ret)

\* --------------------------------------------------------------- Gate 1
\* Gate1Config.  Spreads are counted in thousandths.
MAX_SPREAD_Z_SCORE_three == 2 + 1

MAX_SPREAD_Z_SCORE == 2

MAX_ABS_SPREAD_loose == 500 + 1

MAX_ABS_SPREAD == 500

\* The batches of Gate 1: up to MaxInstruments instruments, each with a
\* sector and its rolling mean spread, and the two five-instrument sectors of
\* Scenario A, with the outlier at 0.5 and just above it.
MaxInstruments == 6

Instrument(sector, spread) == [sector |-> sector, spread |-> spread]

Gate1Kinds ==
    <<Instrument("Tech", 10), Instrument("Tech", 20), Instrument("Tech", 500),
      Instrument("Tech", 501), Instrument("Bank", 10), Instrument("Bank", 500),
      Instrument("Unknown", 10), Instrument("Unknown", 501)>>

\* The non-decreasing sequences of length n over 1..k.
RECURSIVE SortedSeqs(_, _)
SortedSeqs(n, k) ==
    IF n = 0 THEN {<<>>}
    ELSE UNION {{Append(s, j) : s \in SortedSeqs(n - 1, j)} : j \in 1..k}

ScenarioWith(outlier) ==
    <<Instrument("Tech", 10), Instrument("Tech", 20), Instrument("Tech", 15),
      Instrument("Tech", outlier), Instrument("Tech", 18)>>

ScenarioA == ScenarioWith(500)

ScenarioAbove == ScenarioWith(501)

Gate1Batches ==
    {ScenarioA, ScenarioAbove} \cup
    {[i \in 1..Len(s) |-> Gate1Kinds[s[i]]] :
        s \in UNION {SortedSeqs(n, Len(Gate1Kinds)) : n \in 0..MaxInstruments}}

RECURSIVE SumSpreads(_)
SumSpreads(s) ==
    IF s = <<>> THEN 0 ELSE Head(s).spread + SumSpreads(Tail(s))

RECURSIVE SumSquares(_)
SumSquares(s) ==
    IF s = <<>> THEN 0 ELSE (Head(s).spread * Head(s).spread) + SumSquares(Tail(s))

\* Pass 1: the members of a sector, the sum of their spreads and the sum of
\* the squares.
SectorStats(input, sector) ==
    LET members == SelectSeq(input, LAMBDA x : x.sector = sector)
    IN [n |-> Len(members),
        sum |-> SumSpreads(members),
        sumsq |-> SumSquares(members)]

SectorTable(input) ==
    [s \in {input[i].sector : i \in 1..Len(input)} |-> SectorStats(input, s)]

\* n * n * (n - ddof) times the variance, over n * (n - ddof): zero iff the
\* standard deviation is zero.
SpreadOfSector(st) == (st.n * st.sumsq) - (st.sum * st.sum)

\* The guard of pass 2: the z-test applies to a sectored group of two or
\* more members whose standard deviation is not zero.
ZTestable(sector, st) ==
    /\ sector # "Unknown"
    /\ st.n >= 2
    /\ SpreadOfSector(st) > 0

\* z = (spread - mean) / std <= zmax, with std taken over n - ddof, cleared
\* of its divisions and of the square root.
ZWithin(spread, st, ddof, zmax) ==
    LET d == (st.n * spread) - st.sum
    IN \/ d <= 0
       \/ d * d * (st.n - ddof) <= zmax * zmax * st.n * SpreadOfSector(st)

\* Pass 2: the verdict of Gate 1 on one instrument.
Gate1Verdict(x, st, ddof) ==
    LET tested == ZTestable(x.sector, st)
        z_ok == tested => ZWithin(x.spread, st, ddof, MAX_SPREAD_Z_SCORE)
        cap_ok == x.spread <= MAX_ABS_SPREAD
    IN [passed |-> z_ok /\ cap_ok,
        z_tested |-> tested,
        reason |-> IF ~cap_ok THEN <<"Spread", "above", "absolute", "cap">>
                   ELSE IF ~z_ok THEN <<"Spread", "z-score", "above", "maximum">>
                   ELSE IF tested THEN <<"OK">>
                   ELSE <<"OK", "absolute", "cap", "only">>]

InitGate1 ==
    /\ OthersIdle_Gate1
    /\ g1_input \in Gate1Batches
    /\ g1_ddof \in {0, 1}
    /\ g1_pc = "READY"
    /\ sector_table = <<>>
    /\ g1_verdicts = <<>>

\* Pass 1: the sector aggregate table.
Gate1_Pass1 ==
    /\ g1_pc = "READY"
    /\ sector_table' = SectorTable(g1_input)
    /\ g1_pc' = "PASS1"
    /\ UNCHANGED <<frame_Gate1, g1_input, g1_ddof, g1_verdicts>>

\* Pass 2: a verdict for every instrument.
Gate1_Pass2 ==
    /\ g1_pc = "PASS1"
    /\ g1_verdicts' = [i \in 1..Len(g1_input) |->
                          Gate1Verdict(g1_input[i], sector_table[g1_input[i].sector],
                                       g1_ddof)]
    /\ g1_pc' = "DONE"
    /\ UNCHANGED <<frame_Gate1, g1_input, g1_ddof, sector_table>>

NextGate1 ==
    \/ Gate1_Pass1
    \/ Gate1_Pass2

SpecGate1 == InitGate1 /\ [][NextGate1]_vars

\* The sector statistics of instrument i, from the batch itself.
StatsOf(i) == SectorStats(g1_input, g1_input[i].sector)

\* Instrument i has a z-score: its sector is a named group of two or more
\* members with a non-zero deviation.
HasZScore(i) == ZTestable(g1_input[i].sector, StatsOf(i))

\* C18: Gate 1 passes an instrument iff its sector z-score is <= 2.0 and
\* its raw spread is <= 0.5, both bounds inclusive; stated of every
\* instrument that has a z-score.
C18_PassIffZAndCap ==
    g1_pc = "DONE" =>
        \A i \in 1..Len(g1_input) :
            HasZScore(i) =>
                (g1_verdicts[i].passed <=>
                    /\ ZWithin(g1_input[i].spread, StatsOf(i), g1_ddof, 2)
                    /\ g1_input[i].spread <= 500)

\* Instrument i sits exactly z standard deviations above its sector mean.
ZExactly(i, z) ==
    LET st == StatsOf(i)
        d == (st.n * g1_input[i].spread) - st.sum
    IN d > 0 /\ d * d * (st.n - g1_ddof) = z * z * st.n * SpreadOfSector(st)

\* C18 witness: Gate 1 has passed an instrument whose z-score is exactly
\* 2.0.
C18_Witness ==
    /\ g1_pc = "DONE"
    /\ \E i \in 1..Len(g1_input) :
         HasZScore(i) /\ ZExactly(i, 2) /\ g1_verdicts[i].passed

\* Instrument i is in a degenerate group: the "Unknown" sector, a sector of
\* fewer than two members, or one whose deviation is zero.
Degenerate(i) ==
    \/ g1_input[i].sector = "Unknown"
    \/ StatsOf(i).n < 2
    \/ SpreadOfSector(StatsOf(i)) = 0

\* C20: in a degenerate group (fewer than 2 members, a deviation of zero,
\* or the "Unknown" sector) the z-test is skipped and the instrument passes
\* iff its raw spread is within the absolute cap; Gate 1 still gives every
\* instrument of the batch a verdict.
C20_DegenerateCapOnly ==
    g1_pc = "DONE" =>
        /\ Len(g1_verdicts) = Len(g1_input)
        /\ \A i \in 1..Len(g1_input) :
              Degenerate(i) =>
                 /\ ~g1_verdicts[i].z_tested
                 /\ g1_verdicts[i].passed <=> g1_input[i].spread <= 500

\* C20 witness: Gate 1 has evaluated a batch with a one-member sector at the
\* cap, a sector of equal spreads, and two "Unknown" instruments of which
\* the one above the cap failed and the other passed.
C20_Witness ==
    /\ g1_pc = "DONE"
    /\ \E i, j, k, l \in 1..Len(g1_input) :
         /\ g1_input[i].sector = "Bank" /\ StatsOf(i).n = 1
         /\ g1_input[i].spread = 500 /\ g1_verdicts[i].passed
         /\ g1_input[j].sector = "Tech" /\ StatsOf(j).n >= 2
         /\ SpreadOfSector(StatsOf(j)) = 0 /\ g1_verdicts[j].passed
         /\ g1_input[k].sector = "Unknown" /\ g1_input[l].sector = "Unknown"
         /\ g1_verdicts[k].passed /\ ~g1_verdicts[l].passed

\* ------------------------------------------------------------------
\* Gate 1 run by one worker per instrument (spec sections 4.1, 5 and 7):
\* every worker computes the spread of its instrument, the workers join,
\* the sector table is computed once, and every worker evaluates its
\* instrument against the table.

ROLLING_WINDOW == 20

MaxWorkers == 3

Series(sector, spread, rows) == [sector |-> sector, spread |-> spread, rows |-> rows]

WorkerKinds ==
    <<Series("Tech", 10, 20), Series("Tech", 20, 250), Series("Tech", 500, 20),
      Series("Tech", 501, 20), Series("Tech", 10, 19), Series("Tech", 500, 0),
      Series("Bank", 10, 20), Series("Unknown", 10, 19)>>

WorkerBatches ==
    {[i \in 1..Len(s) |-> WorkerKinds[s[i]]] :
        s \in UNION {SortedSeqs(n, Len(WorkerKinds)) : n \in 0..MaxWorkers}}

\* Only an empty series is turned away.
SeriesTooShort_empty_only(x) == x.rows = 0

\* Section 4.1: a missing or short series (< window length).
SeriesTooShort(x) == x.rows < ROLLING_WINDOW

\* The result of Gate 1 on a series that is too short.
InsufficientHistory ==
    [passed |-> FALSE, z_tested |-> FALSE, reason |-> <<"insufficient", "history">>]

\* The spreads computed so far, in the order of the batch.
ComputedSpreads(input, w) ==
    LET idx == SelectSeq([i \in 1..Len(input) |-> i], LAMBDA i : w[i].pc = "barrier")
    IN [k \in 1..Len(idx) |->
           Instrument(input[idx[k]].sector, w[idx[k]].spread)]

\* The row of the sector table, empty for a sector it does not have.
TableGet(table, sector) ==
    IF sector \in DOMAIN table THEN table[sector]
    ELSE [n |-> 0, sum |-> 0, sumsq |-> 0]

\* The workers join as soon as one of them has arrived.
JoinReady_any(w) == \E i \in DOMAIN w : w[i].pc # "spread"

\* Section 5: all the spreads are computed before any z-score is evaluated.
JoinReady(w) == \A i \in DOMAIN w : w[i].pc # "spread"

InitWorkers ==
    /\ OthersIdle_Workers
    /\ g1_input \in WorkerBatches
    /\ g1_ddof \in {0, 1}
    /\ g1_pc = "PASS1"
    /\ sector_table = <<>>
    /\ g1_verdicts = <<>>
    /\ workers = [i \in 1..Len(g1_input) |-> [pc |-> "spread", spread |-> 0]]

\* Pass 1 of worker i: the spread of its instrument, or the failure of a
\* series that is too short.
Worker_Spread(i) ==
    /\ g1_pc \in {"PASS1", "PASS2"}
    /\ workers[i].pc = "spread"
    /\ IF SeriesTooShort(g1_input[i])
       THEN /\ workers' = [workers EXCEPT ![i].pc = "done"]
            /\ g1_verdicts' = [j \in DOMAIN g1_verdicts \cup {i} |->
                                  IF j = i THEN InsufficientHistory
                                  ELSE g1_verdicts[j]]
       ELSE /\ workers' = [workers EXCEPT ![i] =
                              [pc |-> "barrier", spread |-> g1_input[i].spread]]
            /\ UNCHANGED g1_verdicts
    /\ UNCHANGED <<frame_Workers, g1_input, g1_ddof, g1_pc, sector_table>>

\* The join: the sector aggregate table, computed once.
Gate1_Join ==
    /\ g1_pc = "PASS1"
    /\ JoinReady(workers)
    /\ sector_table' = SectorTable(ComputedSpreads(g1_input, workers))
    /\ g1_pc' = "PASS2"
    /\ UNCHANGED <<frame_Workers, g1_input, g1_ddof, g1_verdicts, workers>>

\* Pass 2 of worker i: the verdict on its instrument.
Worker_ZScore(i) ==
    /\ g1_pc = "PASS2"
    /\ workers[i].pc = "barrier"
    /\ workers' = [workers EXCEPT ![i].pc = "done"]
    /\ g1_verdicts' = [j \in DOMAIN g1_verdicts \cup {i} |->
                          IF j = i
                          THEN Gate1Verdict(Instrument(g1_input[i].sector,
                                                       workers[i].spread),
                                            TableGet(sector_table, g1_input[i].sector),
                                            g1_ddof)
                          ELSE g1_verdicts[j]]
    /\ UNCHANGED <<frame_Workers, g1_input, g1_ddof, g1_pc, sector_table>>

\* The gate returns once every worker is done.
Gate1_Return ==
    /\ g1_pc = "PASS2"
    /\ \A i \in DOMAIN workers : workers[i].pc = "done"
    /\ g1_pc' = "DONE"
    /\ UNCHANGED <<frame_Workers, g1_input, g1_ddof, sector_table, g1_verdicts,
                   workers>>

NextWorkers ==
    \/ \E i \in DOMAIN workers : Worker_Spread(i)
    \/ Gate1_Join
    \/ \E i \in DOMAIN workers : Worker_ZScore(i)
    \/ Gate1_Return

SpecWorkers == InitWorkers /\ [][NextWorkers]_vars

\* The instruments of the batch whose series fills the window.
WithHistory(input) == SelectSeq(input, LAMBDA x : x.rows >= ROLLING_WINDOW)

\* C21: an instrument whose series is empty or shorter than the window
\* fails Gate 1, alone, with the reason "insufficient history": the gate
\* never stops before it returns, and when it returns every instrument has
\* a result, the short ones the failure and the others the verdict they get
\* in the batch without the short ones.
C21_InsufficientHistory ==
    /\ g1_pc \in {"PASS1", "PASS2"} => ENABLED NextWorkers
    /\ g1_pc = "DONE" =>
        /\ DOMAIN g1_verdicts = 1..Len(g1_input)
        /\ \A i \in 1..Len(g1_input) :
            IF g1_input[i].rows < ROLLING_WINDOW
            THEN /\ ~g1_verdicts[i].passed
                 /\ g1_verdicts[i].reason = <<"insufficient", "history">>
            ELSE g1_verdicts[i] =
                     Gate1Verdict(g1_input[i],
                                  SectorStats(WithHistory(g1_input), g1_input[i].sector),
                                  g1_ddof)

\* Gate 1 has returned on a batch with an empty series, a series one row
\* short of the window and an instrument that passes.
C21_Witness ==
    /\ g1_pc = "DONE"
    /\ \E i, j, k \in DOMAIN g1_verdicts :
        /\ g1_input[i].rows = 0
        /\ g1_input[j].rows = ROLLING_WINDOW - 1
        /\ g1_verdicts[i].reason = <<"insufficient", "history">>
        /\ g1_verdicts[j].reason = <<"insufficient", "history">>
        /\ g1_input[k].rows = ROLLING_WINDOW
        /\ g1_verdicts[k].passed

\* A verdict of pass 2 exists only when every spread is computed and the
\* sector table is the table of the whole batch.
BarrierHolds ==
    (\E i \in DOMAIN g1_verdicts : g1_verdicts[i] # InsufficientHistory) =>
        /\ \A j \in DOMAIN workers : workers[j].pc # "spread"
        /\ sector_table = SectorTable(WithHistory(g1_input))

\* C24: under any interleaving of the workers, no z-score is evaluated
\* before the spread of every instrument is computed and the sector table
\* is complete, and the table is not modified afterwards.
C24_ForkJoin ==
    [][/\ BarrierHolds'
       /\ g1_pc \in {"PASS2", "DONE"} => sector_table' = sector_table]_vars

\* Gate 1 has returned on a batch of a short series and two instruments of
\* one sector that were put to the z-test.
C24_Witness ==
    /\ g1_pc = "DONE"
    /\ \E i, j, k \in DOMAIN g1_verdicts :
        /\ i # j
        /\ g1_verdicts[i].z_tested
        /\ g1_verdicts[j].z_tested
        /\ g1_verdicts[k] = InsufficientHistory

\* ------------------------------------------------------------------
\* Gate 2, fundamentals (spec section 4.2), with the thresholds of
\* Gate2Config.  Ratios and percentages are in thousandths.

MIN_F_SCORE_five == 4 + 1

MIN_F_SCORE == 4

MIN_CFO_PAT == 500

MAX_PROMOTER_PLEDGE == 5000

\* The nine signals of the accounting-quality score.
Signals ==
    {"roa_positive", "cfo_positive", "roa_improving", "cfo_above_net_income",
     "debt_ratio_declining", "current_ratio_improving", "no_share_issuance",
     "gross_margin_improving", "asset_turnover_improving"}

\* What the fundamentals say of a signal: its field is missing, or it is
\* there and the signal is satisfied or not.
SignalValues == {"missing", "no", "yes"}

Present(v) == [has |-> TRUE, v |-> v]

Missing == [has |-> FALSE, v |-> 0]

CfoPatValues == {Missing, Present(499), Present(500), Present(501)}

PledgeValues == {Missing, Present(0), Present(5000), Present(5001)}

\* The ratio and the pledge that go together in the inputs.
RatioPairs ==
    {<<c, p>> \in CfoPatValues \X PledgeValues :
        \/ c = Present(500)
        \/ p = Present(5000)}

\* A signal with a missing field is counted as satisfied.
SignalSatisfied_skip_missing(v) == v # "no"

\* A signal with a missing field counts as failed.
SignalSatisfied(v) == v = "yes"

\* The score: the number of signals satisfied, 0 to 9.
F_Score(x) == Cardinality({s \in Signals : SignalSatisfied(x.signals[s])})

Gate2Result(x) ==
    LET score == F_Score(x)
        score_ok == score >= MIN_F_SCORE
        cfo_ok == x.cfo_pat.has /\ x.cfo_pat.v >= MIN_CFO_PAT
        pledge_ok == x.promoter_pledge.has /\ x.promoter_pledge.v <= MAX_PROMOTER_PLEDGE
    IN [passed |-> score_ok /\ cfo_ok /\ pledge_ok,
        f_score |-> score,
        reason |-> IF ~score_ok THEN <<"F-score", "below", "minimum">>
                   ELSE IF ~cfo_ok THEN <<"CFO/PAT", "below", "minimum">>
                   ELSE IF ~pledge_ok THEN <<"Promoter", "pledge", "above", "maximum">>
                   ELSE <<"OK">>]

InitGate2 ==
    /\ OthersIdle_Gate2
    /\ \E sig \in [Signals -> SignalValues], r \in RatioPairs :
        fundamentals = [signals |-> sig, cfo_pat |-> r[1], promoter_pledge |-> r[2]]
    /\ g2_result = <<>>

\* Gate 2 on one instrument.
Gate2_Run ==
    /\ fundamentals # <<>>
    /\ g2_result = <<>>
    /\ g2_result' = Gate2Result(fundamentals)
    /\ UNCHANGED <<frame_Gate2, fundamentals>>

NextGate2 == Gate2_Run

SpecGate2 == InitGate2 /\ [][NextGate2]_vars

\* The signals the fundamentals satisfy.
SatisfiedSignals == {s \in Signals : fundamentals.signals[s] = "yes"}

\* C22: Gate 2 passes an instrument iff f_score >= MIN_F_SCORE (4) and
\* CFO/PAT >= MIN_CFO_PAT (0.5) and promoter pledge <= MAX_PROMOTER_PLEDGE
\* (5.0), all bounds inclusive: score 4 with CFO/PAT 0.5 and pledge 5.0
\* passes, score 3 fails.
C22_Gate2PassIff ==
    g2_result # <<>> =>
        LET score == Cardinality(SatisfiedSignals)
            cfo == fundamentals.cfo_pat
            pledge == fundamentals.promoter_pledge
        IN /\ g2_result.f_score = score
           /\ g2_result.passed <=>
                /\ score >= MIN_F_SCORE
                /\ cfo.has /\ cfo.v >= MIN_CFO_PAT
                /\ pledge.has /\ pledge.v <= MAX_PROMOTER_PLEDGE
           /\ (score = 4 /\ cfo = Present(500) /\ pledge = Present(5000))
                  => g2_result.passed
           /\ score = 3 => ~g2_result.passed

\* Gate 2 has passed an instrument with score 4, CFO/PAT 0.5 and pledge 5.0.
C22_Witness ==
    /\ g2_result # <<>>
    /\ g2_result.passed
    /\ g2_result.f_score = 4
    /\ fundamentals.cfo_pat = Present(500)
    /\ fundamentals.promoter_pledge = Present(5000)

\* The fields of the fundamentals.
Fields == Signals \cup {"cfo_pat", "promoter_pledge"}

\* The fundamentals without a field.
Remove(x, field) ==
    IF field = "cfo_pat" THEN [x EXCEPT !.cfo_pat = Missing]
    ELSE IF field = "promoter_pledge" THEN [x EXCEPT !.promoter_pledge = Missing]
    ELSE [x EXCEPT !.signals[field] = "missing"]

\* C23: a signal whose field is missing counts as failed, it adds 0 to the
\* score and is never skipped: removing a field from the fundamentals never
\* raises the score and never turns a Gate 2 fail into a pass.
C23_MissingCountsAsFailed ==
    g2_result # <<>> =>
        /\ g2_result.f_score = Cardinality(SatisfiedSignals)
        /\ \A field \in Fields :
            LET without == Gate2Result(Remove(fundamentals, field))
            IN /\ without.f_score <= g2_result.f_score
               /\ without.passed => g2_result.passed

\* Gate 2 has failed an instrument with a missing field that, with the
\* missing signals counted as satisfied, would have reached the score.
C23_Witness ==
    /\ g2_result # <<>>
    /\ ~g2_result.passed
    /\ g2_result.f_score = 3
    /\ Cardinality({s \in Signals : fundamentals.signals[s] = "missing"}) >= 1
    /\ fundamentals.cfo_pat = Present(500)
    /\ fundamentals.promoter_pledge = Present(5000)

\* ------------------------------------------------------------------
\* The outputs of the two orchestrations as functions of the batch and of
\* what the gates say of its instruments.

\* The instruments of the batch that every gate of gs has passed, in the
\* order of the batch.
PassedAll(gs) ==
    Filter(SeqOf(batch), {t \in batch : \A g \in gs : oracle[g][t] = "pass"})

\* What the gates say of one instrument: a verdict for each gate, or
\* "unset" for a gate that was not asked.
VerdictProfiles ==
    {f \in [GateNames -> UNION {Verdicts(g) : g \in GateNames} \cup {"unset"}] :
        \A g \in GateNames : f[g] \in Verdicts(g) \cup {"unset"}}

\* What the gates say of instrument t.
VerdictsOn(t) == [g \in GateNames |-> oracle[g][t]]

\* The gates of `gates` an instrument with the verdicts f enters when every
\* gate is fed by the survivors of the gate before.
GatesEntered(f, gates) ==
    {g \in gates : \A h \in EarlierGates(g) : f[h] = "pass"}

\* The instrument passed Gate 2B and failed the strength test of Gate 3.
StrengthFailed(f) ==
    /\ \A g \in {G1, G2, G2B} : f[g] = "pass"
    /\ f[G3] \in StrengthFails

\* The gates of run_scan.
ScanGates == {G1, G2, G2B, G3}

\* The trail run_pipeline keeps for an instrument, by what the gates say of
\* it: a result of every gate it entered, and the watchlist tag.
PipelineTrailOf ==
    Tabulated(
    [f \in {e \in VerdictProfiles :
                \A g \in GatesEntered(e, GateNames) : e[g] # "unset"} |->
        LET trail == [g \in GatesEntered(f, GateNames) |-> Result(g, f[g])]
        IN IF StrengthFailed(f)
           THEN ("status" :> "COILING_SPRING") @@ trail
           ELSE trail])

\* The rationale run_scan saves for an instrument, by what the gates say of
\* it: the result of the last gate it entered, tagged when Gate 3 failed it.
ScanTrailOf ==
    Tabulated(
    [f \in {e \in VerdictProfiles :
                \A g \in GatesEntered(e, ScanGates) : e[g] # "unset"} |->
        LET entered == GatesEntered(f, ScanGates)
            last == CHOOSE g \in entered :
                        \A h \in entered : GateIndex(h) <= GateIndex(g)
            res == Result(last, f[last])
        IN IF last = G3 /\ f[G3] # "pass"
           THEN ("status" :> "COILING_SPRING") @@ res
           ELSE res])

ExpectedPipeline ==
    LET springs ==
            Filter(SeqOf(batch), {t \in batch : StrengthFailed(VerdictsOn(t))})
    IN <<PassedAll(GateNames),
         [t \in batch |-> PipelineTrailOf[VerdictsOn(t)]],
         [i \in 1..Len(springs) |->
             [ticker |-> springs[i], reason |-> ReasonOf(G3, oracle[G3][springs[i]])]]>>

\* The candidate list of run_scan by the verdicts of the gates alone: a
\* record for every Gate 2B survivor.
ExpectedScanList ==
    LET kept == PassedAll({G1, G2, G2B})
    IN [i \in 1..Len(kept) |->
           [ticker |-> kept[i],
            status |-> IF oracle[G3][kept[i]] = "pass" THEN "BUY"
                       ELSE "COILING_SPRING",
            reason |-> ReasonOf(G3, oracle[G3][kept[i]]),
            trade |-> SampleTrade[kept[i]]]]

\* The rationale run_scan saves: none when it returns early, else for every
\* instrument the result of the last gate it entered.
ExpectedScanTrail ==
    IF PassedAll({G1, G2, G2B}) = <<>> THEN <<>>
    ELSE [t \in batch |-> ScanTrailOf[VerdictsOn(t)]]

\* C25: determinism.  Two runs on the same batch produce the same
\* candidate list and the same rationale trail: the outputs are the ones
\* the batch and the verdicts of the gates on it give, whatever else
\* happens in the run.
C25_DependsOnBatchAlone ==
    /\ p_pc = "DONE" => p_ret = ExpectedPipeline
    /\ s_pc = "DONE" =>
        /\ s_ret = ExpectedScanList
        /\ all_rationale = ExpectedScanTrail

\* The result gate g returned for instrument t.
Returned(g, t) == Result(g, oracle[g][t])

\* C26: a gate result is created once per instrument per gate and is
\* immutable: every result kept for a ticker, in the trail of run_pipeline
\* and in the rationale dicts of run_scan, is the result the gate returned,
\* no field of it changed and none added.
C26_ResultImmutable ==
    /\ \A t \in DOMAIN full_rationale :
        \A g \in DOMAIN full_rationale[t] \cap GateNames :
            full_rationale[t][g] = Returned(g, t)
    /\ \A g \in {G1, G2, G2B, G3} :
        \A t \in DOMAIN ScanRationale(g) : ScanRationale(g)[t] = Returned(g, t)

\* ------------------------------------------------------------------
\* The holding period of one candidate (orchestrator.py lines 110, 122-123).
\* A pattern string is the sequence of its characters.

MaxPatternLen == 4

PatternChars == {"V", "C", "P", "v", " "}

PatternStrings == UNION {[1..n -> PatternChars] : n \in 0..MaxPatternLen}

\* What the Gate 3 result holds under 'pattern': no such key, None, or a
\* string.
PatternEntries ==
    {[py |-> "missing", v |-> <<>>], [py |-> "None", v |-> <<>>]}
        \cup {PyStr(s) : s \in PatternStrings}

\* Line 122: rat.get('pattern', '')
RatGetPattern(entry) == IF entry.py = "missing" THEN PyStr(<<>>) ELSE entry

\* Line 123: (pattern or '')
OrEmpty(p) == IF p.py = "None" THEN <<>> ELSE p.v

\* The pattern begins with VCP.
HasVCP_prefix(s) == Len(s) >= 3 /\ SubSeq(s, 1, 3) = <<"V", "C", "P">>

\* Line 123: 'VCP' in s
HasVCP(s) == Contains(s, <<"V", "C", "P">>)

\* Line 123: the period label.
Period(entry) ==
    IF HasVCP(OrEmpty(RatGetPattern(entry))) THEN "Swing (2-6 Weeks)"
    ELSE "Positional (1-3 Months)"

InitPeriod ==
    /\ OthersIdle_Period
    /\ pattern \in PatternEntries
    /\ period = "none"

\* Lines 122-123 for one survivor.
RunScan_Period ==
    /\ pattern # <<>>
    /\ period = "none"
    /\ period' = Period(pattern)
    /\ UNCHANGED <<frame_Period, pattern>>

NextPeriod == RunScan_Period

SpecPeriod == InitPeriod /\ [][NextPeriod]_vars

\* The matched pattern is a string with the characters V, C, P in a row.
IndicatesVCP ==
    /\ pattern.py = "str"
    /\ \E i \in 1..Len(pattern.v) :
        /\ i + 2 <= Len(pattern.v)
        /\ pattern.v[i] = "V"
        /\ pattern.v[i + 1] = "C"
        /\ pattern.v[i + 2] = "P"

\* C27: the holding-period label of a candidate is the Swing label iff its
\* matched Gate 3 pattern string contains 'VCP', and the Positional label
\* otherwise, including when the pattern is missing or empty.
C27_PeriodLabel ==
    period # "none" =>
        /\ period = "Swing (2-6 Weeks)" <=> IndicatesVCP
        /\ period = "Positional (1-3 Months)" <=> ~IndicatesVCP

\* The label was derived from a pattern that has VCP after its first
\* character.
C27_Witness ==
    /\ period = "Swing (2-6 Weeks)"
    /\ pattern.py = "str"
    /\ Len(pattern.v) = 4
    /\ pattern.v[1] = " "

\* ------------------------------------------------------------------
\* weekly_aggregator.aggregate_watchlists.  A file of logs/ matched by
\* 'watchlist_daily_*.json' has a name whose last part parses as a date or
\* not, an age (whole days from its date to today's date; negative for a
\* date to come) and the tickers of its items in order, 0 for an item
\* without the key 'ticker'.  A file that cannot be read behaves as a file
\* whose first item has no ticker.

MaxFiles == 3

MaxItems == 2

MaxWeeklyTickers == 2

MIN_OCCURRENCES == 3

FileAges == {0, 6, 7}

FileNames ==
    {[parses |-> TRUE, age |-> a] : a \in FileAges}
        \cup {[parses |-> FALSE, age |-> 6]}

FileItems == UNION {[1..n -> 0..MaxWeeklyTickers] : n \in 0..MaxItems}

DailyFiles == {[name |-> n, items |-> c] : n \in FileNames, c \in FileItems}

\* Lines 18, 28, 34-36: file_date >= TODAY - timedelta(days=7), in half
\* days; file_date is a midnight and `tod` is the half day of TODAY, 0 for
\* midnight.
IsRelevant(f, tod) ==
    /\ f.name.parses
    /\ 2 * (0 - f.name.age) >= tod - (2 * 7)

\* Lines 30-39
relevant_files(all_files, tod) == SelectSeq(all_files, LAMBDA f : IsRelevant(f, tod))

\* Lines 52-62: the items of a file that are counted: those before the
\* first item that raises.
RECURSIVE ItemsRead(_)
ItemsRead(items) ==
    IF items = <<>> \/ Head(items) = 0 THEN <<>>
    ELSE <<Head(items)>> \o ItemsRead(Tail(items))

\* Lines 51-62: the tickers counted, in the order they are counted.
RECURSIVE ItemsCounted(_)
ItemsCounted(files) ==
    IF files = <<>> THEN <<>>
    ELSE ItemsRead(Head(files).items) \o ItemsCounted(Tail(files))

\* Line 58: ticker_counts[t] += 1
ticker_counts(counted, t) == Cardinality({i \in 1..Len(counted) : counted[i] = t})

\* The keys of ticker_counts in insertion order.
RECURSIVE CounterKeys(_)
CounterKeys(counted) ==
    IF counted = <<>> THEN <<>>
    ELSE LET rest == CounterKeys(SubSeq(counted, 1, Len(counted) - 1))
             last == counted[Len(counted)]
         IN IF last \in Range(rest) THEN rest ELSE Append(rest, last)

\* Lines 64-72
coiling_springs_weekly(files) ==
    LET counted == ItemsCounted(files)
        keep == SelectSeq(CounterKeys(counted),
                          LAMBDA t : ticker_counts(counted, t) >= MIN_OCCURRENCES)
    IN [i \in 1..Len(keep) |->
           [ticker |-> keep[i],
            days_on_watchlist |-> ticker_counts(counted, keep[i])]]

InitWeekly ==
    /\ OthersIdle_Weekly
    /\ \E n \in 0..MaxFiles, tod \in {0, 1} :
        \E files \in [1..n -> DailyFiles] :
            log_dir = [pc |-> "START", tod |-> tod, files |-> files]
    /\ digest = <<>>

\* Lines 20-83: the whole of aggregate_watchlists.  Without a relevant file
\* it returns before it writes; a failure to write the digest is logged.
aggregate_watchlists ==
    /\ log_dir # <<>>
    /\ log_dir.pc = "START"
    /\ LET relevant == relevant_files(log_dir.files, log_dir.tod)
       IN IF relevant = <<>>
          THEN digest' = [written |-> FALSE, entries |-> <<>>]
          ELSE \E saved \in BOOLEAN :
                  digest' = [written |-> saved,
                             entries |-> IF saved
                                         THEN coiling_springs_weekly(relevant)
                                         ELSE <<>>]
    /\ log_dir' = [log_dir EXCEPT !.pc = "DONE"]
    /\ UNCHANGED frame_Weekly

NextWeekly == aggregate_watchlists

SpecWeekly == InitWeekly /\ [][NextWeekly]_vars

\* The daily files of the last 7 days, as the aggregator takes them, in
\* which ticker t appears.
FilesWith(t) ==
    {i \in 1..Len(log_dir.files) :
        /\ IsRelevant(log_dir.files[i], log_dir.tod)
        /\ t \in Range(ItemsRead(log_dir.files[i].items))}

\* The number of times ticker t appears in those files.
Appearances(t) ==
    ticker_counts(ItemsCounted(relevant_files(log_dir.files, log_dir.tod)), t)

\* C28: aggregate_watchlists puts a ticker in the weekly digest iff it
\* appeared in the daily watchlist files of the last 7 days at least 3
\* times, and the days_on_watchlist of its entry equals the number of those
\* daily files it appeared in.
C28_WeeklyDigest ==
    (digest # <<>> /\ digest.written) =>
        /\ \A t \in 1..MaxWeeklyTickers :
            (\E i \in 1..Len(digest.entries) : digest.entries[i].ticker = t)
                <=> Appearances(t) >= 3
        /\ \A i \in 1..Len(digest.entries) :
            digest.entries[i].days_on_watchlist =
                Cardinality(FilesWith(digest.entries[i].ticker))

\* swing_filter.py lines 6-10: the order of the gates the module docstring
\* states.
DocumentedOrder == <<G1, G3, G4, G2>>

DocumentedIndex(g) ==
    CHOOSE i \in 1..Len(DocumentedOrder) : DocumentedOrder[i] = g

\* C29: SwingFilter runs the gates in the order stated by its module
\* documentation: Gate 1 (Spread), then Gate 3 (Technicals), then Gate 4
\* (Execution), then Gate 2 (Fundamentals).
C29_DocumentedOrder ==
    \A i, j \in 1..Len(p_calls) :
        (/\ i < j
         /\ p_calls[i].gate \in Range(DocumentedOrder)
         /\ p_calls[j].gate \in Range(DocumentedOrder))
            => DocumentedIndex(p_calls[i].gate) < DocumentedIndex(p_calls[j].gate)

\* ------------------------------------------------------------------
\* main_web.py: the scan endpoints and the background task execute_scan,
\* on the one event loop of the app.  A step is what a coroutine does
\* between two awaits.  active_scan["last_run"], a clock reading, is left
\* out; the GET endpoints and live_ltp_updater write nothing of this state.

\* Largest number of scans scheduled in one behaviour.
MaxScans == 2

Endpoints == {"/run-scan", "/run-full-scan"}

\* The tickers of the results of orch.run_scan.
WebTickers == {1, 2}

\* orchestrator.py lines 138-140: one result of orch.run_scan, for a
\* survivor and the finds of Gate 3; the fields after "status" are left
\* out.
ScanResult(t, found) == [ticker |-> t, status |-> ScanStatus(t, found)]

\* orchestrator.py lines 79, 87, 105-165: what orch.run_scan may return: the
\* empty list when it short-circuits, else one result for each survivor
\* whose post-processing did not raise, in the order of the batch, BUY for
\* the finds of Gate 3 among them.
ScanResults ==
    {[i \in 1..Cardinality(ts) |-> ScanResult(SeqOf(ts)[i], SeqOf(fs))] :
        <<ts, fs>> \in {p \in (SUBSET WebTickers) \X (SUBSET WebTickers) :
                           p[2] \subseteq p[1]}}

\* The first ticker alone.
Candidates_first_only(scan_results) ==
    IF scan_results # <<>> THEN <<scan_results[1].ticker>> ELSE <<>>

\* Line 143: [r["ticker"] for r in results] if results else []
Candidates(scan_results) ==
    IF scan_results # <<>>
    THEN [i \in 1..Len(scan_results) |-> scan_results[i].ticker]
    ELSE <<>>

\* The status is left as it is.
execute_finally_skip(scan) == scan

\* Line 149: active_scan["status"] = "idle"
execute_finally(scan) == [scan EXCEPT !.status = "idle"]

\* Lines 147 and 150: manager.broadcast is called with a message of this
\* type; the status at the call is kept with it.
broadcast_call(task, type, status) ==
    [task EXCEPT !.sent = Append(@, [type |-> type, status |-> status])]

\* Only /run-scan looks at the status.
IsBusy_scan_only(endpoint, status) == endpoint = "/run-scan" /\ status = "running"

\* Lines 75 and 120: if active_scan["status"] == "running"
IsBusy(endpoint, status) == status = "running"

\* Lines 80 and 125: background_tasks.add_task(execute_scan, full_universe=...)
add_task(tasks, endpoint) ==
    Append(tasks, [full_universe |-> (endpoint = "/run-full-scan"),
                   pc |-> "scheduled",
                   returned |-> <<>>, sent |-> <<>>])

InitWeb ==
    /\ OthersIdle_Web
    /\ active_scan = [status |-> "idle", current_candidates |-> <<>>]
    /\ scan_tasks = <<>>
    /\ responses = <<>>

\* Lines 73-92 and 117-131: POST /run-scan and POST /run-full-scan.  The
\* handlers have no await: each runs in one step.  responses holds the
\* response to the latest request: the button returned, with the status
\* the handler saw.
Post(endpoint) ==
    /\ active_scan # <<>>
    /\ IF IsBusy(endpoint, active_scan.status)
       THEN /\ responses' = <<[endpoint |-> endpoint,
                               seen |-> active_scan.status,
                               scheduled |-> FALSE]>>
            /\ UNCHANGED <<active_scan, scan_tasks>>
       ELSE /\ Len(scan_tasks) < MaxScans
            /\ active_scan' = [active_scan EXCEPT !.status = "running"]
            /\ scan_tasks' = add_task(scan_tasks, endpoint)
            /\ responses' = <<[endpoint |-> endpoint,
                               seen |-> active_scan.status,
                               scheduled |-> TRUE]>>
    /\ UNCHANGED frame_Web

\* Lines 133-142: the background task starts and awaits orch.run_scan.
Execute_Start(k) ==
    /\ scan_tasks[k].pc = "scheduled"
    /\ scan_tasks' = [scan_tasks EXCEPT ![k].pc = "scanning"]
    /\ UNCHANGED <<frame_Web, active_scan, responses>>

\* Lines 142-143, 148-150: orch.run_scan returns; the candidates are kept,
\* the status is reset and scan_complete is being broadcast.
Execute_Return(k) ==
    /\ scan_tasks[k].pc = "scanning"
    /\ \E r \in ScanResults :
        LET kept == [active_scan EXCEPT !.current_candidates = Candidates(r)]
            scan == execute_finally(kept)
        IN /\ active_scan' = scan
           /\ scan_tasks' =
                 [scan_tasks EXCEPT ![k] =
                     broadcast_call([@ EXCEPT !.pc = "final_broadcast",
                                              !.returned = r],
                                    "scan_complete", scan.status)]
    /\ UNCHANGED <<frame_Web, responses>>

\* Lines 145-147: orch.run_scan raises; the error is logged and is being
\* broadcast.
Execute_Raise(k) ==
    /\ scan_tasks[k].pc = "scanning"
    /\ scan_tasks' =
          [scan_tasks EXCEPT ![k] =
              broadcast_call([@ EXCEPT !.pc = "error_broadcast"],
                             "error", active_scan.status)]
    /\ UNCHANGED <<frame_Web, active_scan, responses>>

\* Lines 147-150: the broadcast of the error returns; the status is reset
\* and scan_complete is being broadcast.
Execute_Finally(k) ==
    /\ scan_tasks[k].pc = "error_broadcast"
    /\ LET scan == execute_finally(active_scan)
       IN /\ active_scan' = scan
          /\ scan_tasks' =
                [scan_tasks EXCEPT ![k] =
                    broadcast_call([@ EXCEPT !.pc = "final_broadcast"],
                                   "scan_complete", scan.status)]
    /\ UNCHANGED <<frame_Web, responses>>

\* Line 150: the broadcast of scan_complete returns and the task ends; its
\* local results are gone.
Execute_End(k) ==
    /\ scan_tasks[k].pc = "final_broadcast"
    /\ scan_tasks' = [scan_tasks EXCEPT ![k].pc = "finished",
                                        ![k].returned = <<>>]
    /\ UNCHANGED <<frame_Web, active_scan, responses>>

NextWeb ==
    \/ \E e \in Endpoints : Post(e)
    \/ \E k \in DOMAIN scan_tasks : Execute_Start(k)
    \/ \E k \in DOMAIN scan_tasks : Execute_Return(k)
    \/ \E k \in DOMAIN scan_tasks : Execute_Raise(k)
    \/ \E k \in DOMAIN scan_tasks : Execute_Finally(k)
    \/ \E k \in DOMAIN scan_tasks : Execute_End(k)

SpecWeb == InitWeb /\ [][NextWeb]_vars

\* The tasks whose position is one of pcs.
TasksAt(pcs) == {k \in DOMAIN scan_tasks : scan_tasks[k].pc \in pcs}

\* No request that saw the status 'running' scheduled a scan.
BusyRequestsScheduleNothing ==
    \A i \in 1..Len(responses) :
        responses[i].seen = "running" => ~responses[i].scheduled

\* C30 as stated: at most one scan is active at a time: a request that
\* arrives while the status is 'running' schedules no scan, and
\* execute_scan is never scheduled or running twice at once.
C30_OneExecuteScan ==
    /\ BusyRequestsScheduleNothing
    /\ Cardinality(TasksAt({"scheduled", "scanning", "error_broadcast",
                            "final_broadcast"})) <= 1

\* C30, amended: a request that arrives while the status is 'running'
\* schedules no scan, the status is 'running' exactly while one execute_scan
\* is scheduled or has not yet reset it, and so at most one execute_scan is
\* scheduled or inside orch.run_scan or its error broadcast at a time; only
\* the final broadcast of scan_complete, sent after the status is reset, may
\* overlap a scan scheduled later.
C30_OneScanActive ==
    /\ BusyRequestsScheduleNothing
    /\ Cardinality(TasksAt({"scheduled", "scanning", "error_broadcast"})) <= 1
    /\ active_scan.status = "running"
           <=> TasksAt({"scheduled", "scanning", "error_broadcast"}) # {}

\* A request to /run-full-scan was turned away while a scan was running,
\* and a later scan was scheduled during the final broadcast of the first.
C30_Witness ==
    /\ \E i \in 1..Len(responses) :
        /\ responses[i].seen = "running"
        /\ responses[i].endpoint = "/run-full-scan"
    /\ TasksAt({"final_broadcast"}) # {}
    /\ TasksAt({"scanning"}) # {}

\* ------------------------------------------------------------------
\* The background tasks under the scheduling of the event loop: a task that
\* was scheduled is started once the response is sent, orch.run_scan
\* returns or raises, and a broadcast that was awaited returns: while some
\* execute_scan has a step to take, one of them is taken.  Requests come
\* from outside and need not come.
Execute(k) ==
    /\ k \in DOMAIN scan_tasks
    /\ \/ Execute_Start(k)
       \/ Execute_Return(k)
       \/ Execute_Raise(k)
       \/ Execute_Finally(k)
       \/ Execute_End(k)

SpecWebLive ==
    /\ InitWeb
    /\ [][NextWeb]_vars
    /\ WF_vars(\E k \in DOMAIN scan_tasks : Execute(k))

\* The types of the messages execute_scan k has handed to manager.broadcast.
SentTypes(k) == [i \in 1..Len(scan_tasks[k].sent) |-> scan_tasks[k].sent[i].type]

\* The status was 'idle' at every broadcast of scan_complete, and a task
\* that is in its final broadcast or has ended has broadcast scan_complete
\* last, exactly once.
IdleThenComplete ==
    \A k \in DOMAIN scan_tasks :
        /\ \A i \in 1..Len(scan_tasks[k].sent) :
              scan_tasks[k].sent[i].type = "scan_complete"
                  => scan_tasks[k].sent[i].status = "idle"
        /\ scan_tasks[k].pc \in {"final_broadcast", "finished"}
              => SentTypes(k) \in {<<"scan_complete">>,
                                   <<"error", "scan_complete">>}

\* The status is 'running' only while some execute_scan has yet to reset
\* it: once every task is past line 149, neither endpoint is busy.
NoStaleRunning ==
    (\A k \in DOMAIN scan_tasks :
        scan_tasks[k].pc \in {"final_broadcast", "finished"})
        => /\ active_scan.status = "idle"
           /\ \A e \in Endpoints : ~IsBusy(e, active_scan.status)

\* C31: every scan the web app starts sets the status back to 'idle' and
\* then broadcasts scan_complete and ends, whether orch.run_scan returns,
\* short-circuits or raises; the status is never 'running' once every
\* execute_scan is past its reset, so a new scan can be started then.
C31_ScanAlwaysEnds ==
    /\ [](IdleThenComplete /\ NoStaleRunning)
    /\ \A k \in 1..MaxScans :
          (k \in DOMAIN scan_tasks)
              ~> (k \in DOMAIN scan_tasks /\ scan_tasks[k].pc = "finished")

\* A scan raised and ended, a second scan was started after it and
\* returned the empty list; both have ended and the status is 'idle'.
C31_Witness ==
    /\ Len(scan_tasks) >= 2
    /\ scan_tasks[1].pc = "finished"
    /\ scan_tasks[2].pc = "finished"
    /\ SentTypes(1) = <<"error", "scan_complete">>
    /\ SentTypes(2) = <<"scan_complete">>
    /\ active_scan.current_candidates = <<>>
    /\ active_scan.status = "idle"

\* What one step does to execute_scan k and to the candidates.
ScanOutcomeKept(k) ==
    LET before == scan_tasks[k]
        after == scan_tasks'[k]
        unchanged == active_scan'.current_candidates
                        = active_scan.current_candidates
    IN /\ (before.pc = "scanning" /\ after.pc = "error_broadcast")
            => /\ unchanged
               /\ after.sent = <<[type |-> "error", status |-> "running"]>>
       /\ (before.pc = "error_broadcast" /\ after.pc # before.pc)
            => /\ unchanged
               /\ after.pc = "final_broadcast"
       /\ (before.pc = "final_broadcast" /\ after.pc # before.pc)
            => unchanged
       /\ (before.pc = "scanning" /\ after.pc = "final_broadcast")
            => /\ active_scan'.current_candidates = TickerList(after.returned)
               /\ after.returned = <<>>
                     => active_scan'.current_candidates = <<>>
               /\ \A i \in 1..Len(after.sent) : after.sent[i].type # "error"

\* C32: when a scan raises, execute_scan leaves current_candidates as they
\* were and broadcasts an 'error' message; when a scan returns,
\* current_candidates becomes exactly the tickers of the returned results,
\* the empty list when the scan short-circuited.
C32_CandidatesAfterScan ==
    [][\A k \in DOMAIN scan_tasks : ScanOutcomeKept(k)]_vars

\* A scan returned two results and a later scan raised: the candidates are
\* still the two tickers and the error was broadcast.
C32_Witness ==
    /\ Len(scan_tasks) >= 2
    /\ scan_tasks[1].pc = "finished"
    /\ SentTypes(1) = <<"scan_complete">>
    /\ scan_tasks[2].pc = "final_broadcast"
    /\ SentTypes(2) = <<"error", "scan_complete">>
    /\ active_scan.current_candidates = <<1, 2>>
    /\ active_scan.status = "idle"

\* ------------------------------------------------------------------
\* main_web.py lines 34-63: ConnectionManager and websocket_endpoint on the
\* event loop of the app.  A step is what a coroutine does between two
\* awaits: a send_json or an accept that is awaited lets the other
\* coroutines run.

MaxSockets == 3

MaxBroadcasts == 2

WebSockets == 1..MaxSockets

\* Line 44: self.active_connections.remove(websocket)
ListRemove(list, x) ==
    LET i == CHOOSE j \in 1..Len(list) : list[j] = x /\ \A h \in 1..(j - 1) : list[h] # x
    IN [j \in 1..(Len(list) - 1) |-> IF j < i THEN list[j] ELSE list[j + 1]]

\* Lines 42-44: disconnect
disconnect(list, websocket) ==
    IF websocket \in Range(list) THEN ListRemove(list, websocket) ELSE list

\* Line 47: one turn of "for connection in self.active_connections": the
\* list iterator holds the index of the next element and reads the list as
\* it is now; it stops once the index is past the end.
NextConnection(b, list) ==
    IF b.index < Len(list)
    THEN [b EXCEPT !.pc = "sending",
                   !.connection = list[b.index + 1],
                   !.index = b.index + 1,
                   !.sent_to = @ \cup {list[b.index + 1]}]
    ELSE [b EXCEPT !.pc = "done", !.connection = 0]

InitBroadcast ==
    /\ OthersIdle_Broadcast
    /\ active_connections = <<>>
    /\ sockets = [w \in WebSockets |-> "new"]
    /\ broadcasts = <<>>

\* Lines 57-58, 39: a client opens /ws/progress; connect awaits accept.
Connect_Accept(w) ==
    /\ sockets # <<>>
    /\ sockets[w] = "new"
    /\ sockets' = [sockets EXCEPT ![w] = "accepting"]
    /\ UNCHANGED <<frame_Broadcast, active_connections, broadcasts>>

\* Lines 40, 59-61: accept returns, the socket is appended and the endpoint
\* awaits receive_text.
Connect_Append(w) ==
    /\ sockets # <<>>
    /\ sockets[w] = "accepting"
    /\ sockets' = [sockets EXCEPT ![w] = "open"]
    /\ active_connections' = Append(active_connections, w)
    /\ UNCHANGED <<frame_Broadcast, broadcasts>>

\* Lines 62-63, 42-44: receive_text raises WebSocketDisconnect and the
\* socket is removed.  The broadcasts under way no longer count it among
\* the connections that stayed.
Disconnect(w) ==
    /\ sockets # <<>>
    /\ sockets[w] = "open"
    /\ sockets' = [sockets EXCEPT ![w] = "closed"]
    /\ active_connections' = disconnect(active_connections, w)
    /\ broadcasts' = [i \in DOMAIN broadcasts |->
                        IF broadcasts[i].pc = "sending"
                        THEN [broadcasts[i] EXCEPT !.stayed = @ \ {w}]
                        ELSE broadcasts[i]]
    /\ UNCHANGED frame_Broadcast

\* Lines 46-49: broadcast is called and runs up to its first send_json.
Broadcast_Call ==
    /\ sockets # <<>>
    /\ Len(broadcasts) < MaxBroadcasts
    /\ broadcasts' =
          Append(broadcasts,
                 NextConnection([pc |-> "called", index |-> 0,
                                 connection |-> 0, sent_to |-> {},
                                 delivered |-> {},
                                 stayed |-> Range(active_connections)],
                                active_connections))
    /\ UNCHANGED <<frame_Broadcast, active_connections, sockets>>

\* Lines 47-51: the send_json awaited returns or raises; the exception is
\* swallowed and the loop goes on to the next connection.
Broadcast_Send(i) ==
    /\ broadcasts[i].pc = "sending"
    /\ \E ok \in BOOLEAN :
        LET b == broadcasts[i]
            after == IF ok THEN [b EXCEPT !.delivered = @ \cup {b.connection}]
                           ELSE b
        IN broadcasts' =
              [broadcasts EXCEPT ![i] = NextConnection(after, active_connections)]
    /\ UNCHANGED <<frame_Broadcast, active_connections, sockets>>

NextBroadcast ==
    \/ \E w \in WebSockets : Connect_Accept(w)
    \/ \E w \in WebSockets : Connect_Append(w)
    \/ \E w \in WebSockets : Disconnect(w)
    \/ Broadcast_Call
    \/ \E i \in DOMAIN broadcasts : Broadcast_Send(i)

SpecBroadcast == InitBroadcast /\ [][NextBroadcast]_vars

\* C33: a broadcast that has returned called send_json on every connection
\* that was registered when it was called and stayed registered until it
\* returned, whatever sends failed and whoever connected or disconnected
\* meanwhile.
C33_NoConnectionSkipped ==
    \A i \in DOMAIN broadcasts :
        broadcasts[i].pc = "done"
            => broadcasts[i].stayed \subseteq broadcasts[i].sent_to

\* ------------------------------------------------------------------
\* data_manager.py lines 32-78: robust_yf_download.  One step is one turn
\* of its loop: one call of yf.download and what follows it.

MaxRetries == 3

\* The argument retries; 3 is the default and what every caller uses.
RetriesValues == 0..MaxRetries

\* What str(e) of an exception raised by yf.download may hold.
ErrorMessages == {"Unauthorized", "Invalid Crumb", "401", "timed out"}

\* What one call of yf.download may do: return a frame with rows, return
\* an empty frame, return no frame at all, or raise.
DownloadOutcomes ==
    {[kind |-> "frame", empty |-> FALSE], [kind |-> "frame", empty |-> TRUE],
     [kind |-> "none"]}
        \cup {[kind |-> "raise", message |-> m] : m \in ErrorMessages}

\* One turn too many.
range_inclusive(retries) == 0..retries

\* Line 48: range(retries)
range(retries) == 0..(retries - 1)

\* Line 71: "Unauthorized" in err_str or "Invalid Crumb" in err_str or
\* "401" in err_str
IsYahooBlock(err_str) == err_str \in {"Unauthorized", "Invalid Crumb", "401"}

\* Lines 49-69: what the try block ends with: the frame is returned, the
\* frame is empty, or an Exception reaches the handler; df.empty of no
\* frame is an AttributeError.
TryBlock(outcome) ==
    CASE outcome.kind = "frame" /\ ~outcome.empty -> [kind |-> "return"]
      [] outcome.kind = "frame" /\ outcome.empty -> [kind |-> "empty"]
      [] outcome.kind = "none" ->
            [kind |-> "except", message |-> "AttributeError"]
      [] outcome.kind = "raise" ->
            [kind |-> "except", message |-> outcome.message]

\* Lines 64-77: one turn of the loop after yf.download, for the attempt
\* number and the outcome of the download.
LoopBody(d, outcome) ==
    LET attempt == d.attempt
        last == attempt = d.retries - 1
        tried == [d EXCEPT !.log = Append(@, outcome)]
        next == [tried EXCEPT !.attempt = attempt + 1]
        end == TryBlock(outcome)
    IN CASE end.kind = "return" ->
               [tried EXCEPT !.pc = "returned",
                             !.ret = [empty |-> FALSE, attempt |-> attempt]]
         [] end.kind = "empty" ->
               IF ~last
               THEN [next EXCEPT !.sleeps = Append(@, "backoff")]
               ELSE next
         [] end.kind = "except" ->
               IF IsYahooBlock(end.message) /\ ~last
               THEN [next EXCEPT !.sleeps = Append(@, "block")]
               ELSE IF last
                    THEN [tried EXCEPT !.pc = "returned",
                                       !.ret = [empty |-> TRUE]]
                    ELSE next

InitDownload ==
    /\ OthersIdle_Download
    /\ \E r \in RetriesValues :
        download = [pc |-> "loop", retries |-> r, attempt |-> 0,
                    log |-> <<>>, sleeps |-> <<>>, ret |-> <<>>]

\* Lines 48-77: one turn of the loop.
Download_Attempt ==
    /\ download # <<>>
    /\ download.pc = "loop"
    /\ download.attempt \in range(download.retries)
    /\ \E outcome \in DownloadOutcomes :
        download' = LoopBody(download, outcome)
    /\ UNCHANGED frame_Download

\* Line 78: the loop is over: return pd.DataFrame()
Download_Exhausted ==
    /\ download # <<>>
    /\ download.pc = "loop"
    /\ download.attempt \notin range(download.retries)
    /\ download' = [download EXCEPT !.pc = "returned",
                                    !.ret = [empty |-> TRUE]]
    /\ UNCHANGED frame_Download

NextDownload == Download_Attempt \/ Download_Exhausted

SpecDownload == InitDownload /\ [][NextDownload]_vars

\* The attempts whose download returned a frame with rows.
NonEmptyAttempts ==
    {i \in 1..Len(download.log) :
        download.log[i] = [kind |-> "frame", empty |-> FALSE]}

\* C34: robust_yf_download makes at most `retries` download attempts and
\* then returns, whatever the downloads did: the frame of the first
\* non-empty download, which is its last attempt, or the empty frame once
\* every one of the `retries` attempts came back empty or raised.
C34_BoundedRetries ==
    /\ Len(download.log) <= download.retries
    /\ download.pc \in {"loop", "returned"}
    /\ download.pc = "loop" => (NonEmptyAttempts = {} /\ ENABLED NextDownload)
    /\ download.pc = "returned" =>
          IF NonEmptyAttempts # {}
          THEN /\ NonEmptyAttempts = {Len(download.log)}
               /\ download.ret = [empty |-> FALSE,
                                  attempt |-> Len(download.log) - 1]
          ELSE /\ download.ret = [empty |-> TRUE]
               /\ Len(download.log) = download.retries

\* With the default of three retries: an empty frame, then a Yahoo block,
\* then a frame with rows, which is returned.
C34_Witness ==
    /\ download.pc = "returned"
    /\ download.retries = MaxRetries
    /\ Len(download.log) = MaxRetries
    /\ download.log[1] = [kind |-> "frame", empty |-> TRUE]
    /\ download.log[2] = [kind |-> "raise", message |-> "Invalid Crumb"]
    /\ download.log[3] = [kind |-> "frame", empty |-> FALSE]
    /\ download.sleeps = <<"backoff", "block">>
    /\ download.ret = [empty |-> FALSE, attempt |-> 2]

\* ------------------------------------------------------------------
\* The statuses in the output of one scan.

\* No element of the list occurs twice.
NoDuplicates(list) ==
    \A i, j \in 1..Len(list) : i # j => list[i] # list[j]

\* The records of the list for ticker t.
RecordsOf(recs, t) == {i \in 1..Len(recs) : recs[i].ticker = t}

\* No ticker has two records in the list run_scan returns, every record is
\* for a Gate 2B survivor, and a record is a BUY iff its ticker is a Gate 3
\* survivor, a COILING_SPRING otherwise.
ScanStatusesExclusive ==
    /\ NoDuplicates(TickerList(s_ret))
    /\ \A i \in 1..Len(s_ret) :
        /\ s_ret[i].ticker \in Range(g2b_passed)
        /\ s_ret[i].status \in {"BUY", "COILING_SPRING"}
        /\ s_ret[i].status = "BUY" <=> s_ret[i].ticker \in Range(finds)

\* The candidates and the coiling springs run_pipeline returns have no
\* ticker in common and none twice.
PipelineListsDisjoint ==
    /\ NoDuplicates(p_ret[1])
    /\ NoDuplicates(TickerList(p_ret[3]))
    /\ Range(p_ret[1]) \cap TickersOf(p_ret[3]) = {}

\* C35: in the output of one scan no ticker appears twice and
\* none is both a BUY and a COILING_SPRING: run_scan gives each Gate 2B
\* survivor exactly one status, BUY iff it is a Gate 3 survivor, and the
\* candidates and the coiling springs of run_pipeline are disjoint.
C35_OneStatusEach ==
    /\ s_pc = "DONE" =>
        /\ ScanStatusesExclusive
        /\ \A t \in Range(g2b_passed) : Cardinality(RecordsOf(s_ret, t)) = 1
    /\ p_pc = "DONE" => PipelineListsDisjoint

\* The tickers run_scan returned with the given status.
ScanTickersWith(status) ==
    {s_ret[i].ticker : i \in {j \in 1..Len(s_ret) : s_ret[j].status = status}}

\* C36: the two orchestrations are equivalent: on the same batch and the
\* same verdicts of the gates, Orchestrator.run_scan and
\* SwingFilter.run_pipeline select the same set of buy candidates and the
\* same set of COILING_SPRING tickers.
C36_SameSelection ==
    (s_pc = "DONE" /\ p_pc = "DONE") =>
        /\ ScanTickersWith("BUY") = Range(p_ret[1])
        /\ ScanTickersWith("COILING_SPRING") = TickersOf(p_ret[3])

====
